---------------------------- MODULE Spec2Model ----------------------------
(***************************************************************************)
(* KusionStack/kube-xset: the ResourceContext instance-ID allocator        *)
(* (resourcecontexts/resource_context.go) and the XSet reconciler          *)
(* (xset_controller.go), as state machines.                                *)
(*                                                                         *)
(* A Go map[int]*ContextDetail is a function from a finite set of integers *)
(* to details; map[string]string is a function from a finite set of        *)
(* strings to strings; a label value is a sequence of one-character        *)
(* strings, so that strconv.ParseInt is computed and not assumed.          *)
(***************************************************************************)
EXTENDS Integers, Sequences, FiniteSets, TLC

(***************************************************************************)
(* Bounds of the model.                                                    *)
(***************************************************************************)
MaxReplicas == 2

MaxPoolReplicas == 1

MaxFnReplicas == 3

MaxFnTargets == 2

MaxSyncReplicas == 2

MaxCleanReplicas == 2

MaxCreateReplicas == 2

MaxDiff == 2

MaxIdemReplicas == 2

MaxRequeue == 2

(***************************************************************************)
(* Names.                                                                  *)
(***************************************************************************)
Parents == {"a", "b"}

PoolName == "pool"

OwnerKey == "Owner"

RevisionKey == "Revision"

JustCreateKey == "TargetJustCreate"

RecreateUpdateKey == "TargetRecreateUpdate"

TargetDecorationRevisionKey == "TargetDecorationRevisions"

ReplaceOriginTargetIDKey == "ReplaceOriginTargetID"

InstanceIdLabel == "instance-id"

ReplacePairOriginLabel == "replace-pair-origin-name"

RevisionLabel == "controller-revision-hash"

EmptyMap == <<>>

(***************************************************************************)
(* ContextDetail and its accessors (Get/Contains/Put/Remove).              *)
(***************************************************************************)
Detail(id, data) == [ID |-> id, Data |-> data]

Get(detail, key) == key \in DOMAIN detail.Data

Contains(detail, key, value) ==
    key \in DOMAIN detail.Data /\ detail.Data[key] = value

Put(detail, key, value) ==
    [detail EXCEPT !.Data = (key :> value) @@ detail.Data]

Remove(detail, key) ==
    [detail EXCEPT !.Data = [k \in (DOMAIN detail.Data) \ {key} |-> detail.Data[k]]]

maxInt(x, y) == IF x > y THEN x ELSE y

(***************************************************************************)
(* XSetSpec: Replicas is a *int32 (Nil, or Ptr(n)), ScaleStrategy.Context  *)
(* a string, RollingUpdate one of                                          *)
(*   [kind |-> "none"], [kind |-> "byLabel"],                              *)
(*   [kind |-> "byPartition", partition |-> Nil or Ptr(n)].                *)
(***************************************************************************)
XSetSpec(replicas, context, rollingUpdate) ==
    [Replicas |-> replicas, Context |-> context, RollingUpdate |-> rollingUpdate]

Nil == <<>>

Ptr(v) == <<v>>

Deref(v, def) == IF v = Nil THEN def ELSE v[1]

(***************************************************************************)
(* strconv.ParseInt(val, 10, 32) on a sequence of characters: an optional  *)
(* sign, then at least one decimal digit, the value within int32.  The     *)
(* range is decided on the digits (TLC's integers are 32 bits wide): the   *)
(* digits without leading zeros are fewer than ten, or ten and not beyond  *)
(* those of 2147483647 (2147483648 after a minus sign).                    *)
(***************************************************************************)
DigitChars == {"0", "1", "2", "3", "4", "5", "6", "7", "8", "9"}

DigitVal(c) ==
    CASE c = "0" -> 0 [] c = "1" -> 1 [] c = "2" -> 2 [] c = "3" -> 3
      [] c = "4" -> 4 [] c = "5" -> 5 [] c = "6" -> 6 [] c = "7" -> 7
      [] c = "8" -> 8 [] c = "9" -> 9

RECURSIVE StripZeros(_)
StripZeros(s) == IF Len(s) > 1 /\ Head(s) = "0" THEN StripZeros(Tail(s)) ELSE s

RECURSIVE DigitsLeq(_, _)
DigitsLeq(s, t) ==
    IF s = <<>> THEN TRUE
    ELSE IF DigitVal(Head(s)) # DigitVal(Head(t)) THEN DigitVal(Head(s)) < DigitVal(Head(t))
    ELSE DigitsLeq(Tail(s), Tail(t))

InInt32(digits, negative) ==
    LET d == StripZeros(digits)
        limit == IF negative THEN <<"2", "1", "4", "7", "4", "8", "3", "6", "4", "8">>
                 ELSE <<"2", "1", "4", "7", "4", "8", "3", "6", "4", "7">>
    IN  Len(d) < Len(limit) \/ (Len(d) = Len(limit) /\ DigitsLeq(d, limit))

RECURSIVE DigitsValue(_, _, _)
DigitsValue(s, acc, sign) ==
    IF s = <<>> THEN acc
    ELSE DigitsValue(Tail(s), 10 * acc + sign * DigitVal(Head(s)), sign)

ParseInt(val) ==
    LET signed == val # <<>> /\ Head(val) \in {"-", "+"}
        negative == signed /\ Head(val) = "-"
        digits == IF signed THEN Tail(val) ELSE val
        wellFormed == digits # <<>> /\ \A i \in 1..Len(digits) : digits[i] \in DigitChars
    IN  IF wellFormed /\ InInt32(digits, negative)
        THEN [err |-> FALSE, id |-> DigitsValue(digits, 0, IF negative THEN -1 ELSE 1)]
        ELSE [err |-> TRUE, id |-> -1]

(***************************************************************************)
(* A target: [deleting, labels], labels a map from label keys to values.   *)
(***************************************************************************)
GetInstanceID(target) ==
    IF InstanceIdLabel \notin DOMAIN target.labels
    THEN [err |-> TRUE, id |-> -1]
    ELSE ParseInt(target.labels[InstanceIdLabel])

GetTargetRevision(target, defaultRevision) ==
    IF RevisionLabel \in DOMAIN target.labels
    THEN target.labels[RevisionLabel]
    ELSE defaultRevision

(***************************************************************************)
(* The partition of a ResourceContext's details that AllocateID and        *)
(* CleanUnusedIDs compute: a map keyed by detail.ID, a later detail of the *)
(* slice replacing an earlier one with the same ID.                        *)
(***************************************************************************)
RECURSIVE CollectIDs(_, _, _, _)
CollectIDs(contexts, ownerName, withOthers, acc) ==
    IF contexts = <<>> THEN acc
    ELSE LET detail == Head(contexts)
             keep == Contains(detail, OwnerKey, ownerName) \/ withOthers
         IN  CollectIDs(Tail(contexts), ownerName, withOthers,
                        IF keep THEN (detail.ID :> detail) @@ acc ELSE acc)

OwnedIDsOf(contexts, ownerName) == CollectIDs(contexts, ownerName, FALSE, EmptyMap)

ExistingIDsOf(contexts, ownerName, spec) ==
    CollectIDs(contexts, ownerName, spec.Context # "", EmptyMap)

(***************************************************************************)
(* getUnRecordTargetIDs: ids used by targets but not recorded.             *)
(***************************************************************************)
RECURSIVE UnRecordLoop_DeletingToo(_, _, _, _)
UnRecordLoop_DeletingToo(existingIDs, objs, defaultRevision, acc) ==
    IF objs = <<>> THEN acc
    ELSE LET obj == Head(objs)
             got == GetInstanceID(obj)
             take == /\ ReplacePairOriginLabel \notin DOMAIN obj.labels
                     /\ ~got.err
                     /\ got.id \notin DOMAIN existingIDs
         IN  UnRecordLoop_DeletingToo(existingIDs, Tail(objs), defaultRevision,
                                      IF take
                                      THEN (got.id :> GetTargetRevision(obj, defaultRevision)) @@ acc
                                      ELSE acc)

RECURSIVE UnRecordLoop(_, _, _, _)
UnRecordLoop(existingIDs, objs, defaultRevision, acc) ==
    IF objs = <<>> THEN acc
    ELSE LET obj == Head(objs)
             got == GetInstanceID(obj)
             take == /\ ~obj.deleting
                     /\ ReplacePairOriginLabel \notin DOMAIN obj.labels
                     /\ ~got.err
                     /\ got.id \notin DOMAIN existingIDs
         IN  UnRecordLoop(existingIDs, Tail(objs), defaultRevision,
                          IF take
                          THEN (got.id :> GetTargetRevision(obj, defaultRevision)) @@ acc
                          ELSE acc)

getUnRecordTargetIDs(existingIDs, objs, defaultRevision) ==
    UnRecordLoop(existingIDs, objs, defaultRevision, EmptyMap)

(***************************************************************************)
(* addUnrecordedIDs: every unrecorded id becomes an owned detail, with the *)
(* revision recorded for its target.                                       *)
(***************************************************************************)
addUnrecordedIDs(ownedIDs, unRecordIDs, ownerName) ==
    [id \in DOMAIN unRecordIDs |->
        Detail(id, (OwnerKey :> ownerName) @@ (RevisionKey :> unRecordIDs[id])
                   @@ (JustCreateKey :> "true"))] @@ ownedIDs

(***************************************************************************)
(* allocateNewIDs: scan 0, 1, 2, ... skipping existingIDs until            *)
(* replicas - len(ownedIDs) ids are found.                                 *)
(***************************************************************************)
RECURSIVE ScanNewIDs(_, _, _, _)
ScanNewIDs(id, newIDs, want, existingIDs) ==
    IF Len(newIDs) >= want THEN newIDs
    ELSE IF id \in DOMAIN existingIDs
         THEN ScanNewIDs(id + 1, newIDs, want, existingIDs)
         ELSE ScanNewIDs(id + 1, Append(newIDs, id), want, existingIDs)

allocateNewIDs_NoSkip(ownedIDs, existingIDs, replicas, ownerName) ==
    LET newIDs == ScanNewIDs(0, <<>>, replicas - Cardinality(DOMAIN ownedIDs), EmptyMap)
    IN  [id \in {newIDs[i] : i \in 1..Len(newIDs)} |->
            Detail(id, (OwnerKey :> ownerName) @@ (JustCreateKey :> "true"))]

allocateNewIDs_FromOne(ownedIDs, existingIDs, replicas, ownerName) ==
    LET newIDs == ScanNewIDs(1, <<>>, replicas - Cardinality(DOMAIN ownedIDs), existingIDs)
    IN  [id \in {newIDs[i] : i \in 1..Len(newIDs)} |->
            Detail(id, (OwnerKey :> ownerName) @@ (JustCreateKey :> "true"))]

allocateNewIDs_IndexAsID(ownedIDs, existingIDs, replicas, ownerName) ==
    LET newIDs == ScanNewIDs(0, <<>>, replicas - Cardinality(DOMAIN ownedIDs), existingIDs)
    IN  [id \in {newIDs[i] : i \in 1..Len(newIDs)} |->
            Detail((CHOOSE i \in 1..Len(newIDs) : newIDs[i] = id) - 1,
                   (OwnerKey :> ownerName) @@ (JustCreateKey :> "true"))]

allocateNewIDs(ownedIDs, existingIDs, replicas, ownerName) ==
    LET newIDs == ScanNewIDs(0, <<>>, replicas - Cardinality(DOMAIN ownedIDs), existingIDs)
    IN  [id \in {newIDs[i] : i \in 1..Len(newIDs)} |->
            Detail(id, (OwnerKey :> ownerName) @@ (JustCreateKey :> "true"))]

(***************************************************************************)
(* DecideContextsRevisionBeforeCreate: the revision of each new detail.    *)
(* In the byPartition loop "for i := range newIDs" the variable i is the   *)
(* key of the map, that is the ID.                                         *)
(***************************************************************************)
PutAll(newIDs, key, value) == [i \in DOMAIN newIDs |-> Put(newIDs[i], key, value)]

DecideContextsRevisionBeforeCreate_ByLabelUpdated(ownedIDs, newIDs, spec, currentRevision, updatedRevision) ==
    PutAll(newIDs, RevisionKey, updatedRevision)

DecideContextsRevisionBeforeCreate(ownedIDs, newIDs, spec, currentRevision, updatedRevision) ==
    LET rollingUpdateStrategy == spec.RollingUpdate
    IN  IF rollingUpdateStrategy.kind = "none"
        THEN PutAll(newIDs, RevisionKey, updatedRevision)
        ELSE IF rollingUpdateStrategy.kind = "byLabel"
        THEN PutAll(newIDs, RevisionKey, currentRevision)
        ELSE IF rollingUpdateStrategy.kind # "byPartition" \/ rollingUpdateStrategy.partition = Nil
        THEN PutAll(newIDs, RevisionKey, updatedRevision)
        ELSE LET replicas == Deref(spec.Replicas, 0)
                 partition == Deref(rollingUpdateStrategy.partition, 0)
                 updatedReplicas ==
                     Cardinality({i \in DOMAIN ownedIDs :
                         /\ ~Get(ownedIDs[i], ReplaceOriginTargetIDKey)
                         /\ Contains(ownedIDs[i], RevisionKey, updatedRevision)})
             IN  [i \in DOMAIN newIDs |->
                     IF i < (replicas - partition) - updatedReplicas
                     THEN Put(newIDs[i], RevisionKey, updatedRevision)
                     ELSE Put(newIDs[i], RevisionKey, currentRevision)]

(***************************************************************************)
(* doAllocateID: adopt the unrecorded ids, allocate the new ones, decide   *)
(* their revision, and merge them into ownedIDs ("ownedIDs[k] = v").       *)
(***************************************************************************)
doAllocateID(ownedIDs, existingIDs, unRecordIDs, replicas, ownerName, spec, currentRevision, updatedRevision) ==
    LET adopted == addUnrecordedIDs(ownedIDs, unRecordIDs, ownerName)
        newIDs == allocateNewIDs(adopted, existingIDs, replicas, ownerName)
        decided == DecideContextsRevisionBeforeCreate(adopted, newIDs, spec,
                                                      currentRevision, updatedRevision)
    IN  [ownedIDs |-> decided @@ adopted, adopted |-> adopted,
         newIDs |-> newIDs, decided |-> decided]

(***************************************************************************)
(* sort.Sort(ContextDetailsByOrder(...)): ascending by ID.  The slice that *)
(* is sorted is filled by ranging over a Go map, in any order.             *)
(***************************************************************************)
RECURSIVE InsertByID(_, _)
InsertByID(sorted, detail) ==
    IF sorted = <<>> THEN <<detail>>
    ELSE IF detail.ID < Head(sorted).ID THEN <<detail>> \o sorted
    ELSE <<Head(sorted)>> \o InsertByID(Tail(sorted), detail)

SortByID_Unsorted(contexts) == contexts

RECURSIVE SortByID(_)
SortByID(contexts) ==
    IF contexts = <<>> THEN <<>> ELSE InsertByID(SortByID(Tail(contexts)), Head(contexts))

RECURSIVE KeyOrders(_)
KeyOrders(keys) ==
    IF keys = {} THEN {<<>>}
    ELSE UNION {{<<k>> \o rest : rest \in KeyOrders(keys \ {k})} : k \in keys}

RangeOrders(m) == {[i \in 1..Len(ks) |-> m[ks[i]]] : ks \in KeyOrders(DOMAIN m)}

(***************************************************************************)
(* doUpdateTargetContext, up to the client call: ownedIDs re-keyed by      *)
(* contextDetail.ID over the other owners' details of the object read      *)
(* (those only if the context pool is enabled).                            *)
(***************************************************************************)
MergedIDs_OwnOnly(ownedIDs, read, spec, name) ==
    [id \in {ownedIDs[k].ID : k \in DOMAIN ownedIDs} |->
        ownedIDs[CHOOSE k \in DOMAIN ownedIDs : ownedIDs[k].ID = id]]

MergedIDs_OwnKept(ownedIDs, read, spec, name) ==
    LET others == IF spec.Context # ""
                  THEN [id \in {read[i].ID : i \in 1..Len(read)} |->
                           read[CHOOSE i \in 1..Len(read) : read[i].ID = id]]
                  ELSE EmptyMap
        rekeyed == [id \in {ownedIDs[k].ID : k \in DOMAIN ownedIDs} |->
                       ownedIDs[CHOOSE k \in DOMAIN ownedIDs : ownedIDs[k].ID = id]]
    IN  rekeyed @@ others

MergedIDs(ownedIDs, read, spec, name) ==
    LET others == IF spec.Context # ""
                  THEN CollectIDs(SelectSeq(read, LAMBDA d : ~Contains(d, OwnerKey, name)),
                                  name, TRUE, EmptyMap)
                  ELSE EmptyMap
        rekeyed == [id \in {ownedIDs[k].ID : k \in DOMAIN ownedIDs} |->
                       ownedIDs[CHOOSE k \in DOMAIN ownedIDs : ownedIDs[k].ID = id]]
    IN  rekeyed @@ others

(***************************************************************************)
(* ExtractAvailableContexts: ranging over ownedIDs in the order of the map *)
(* iteration, the details whose key is not in targetInstanceIDSet, until   *)
(* diff of them are found; every result an iteration order can give.       *)
(***************************************************************************)
RECURSIVE ExtractLoop(_, _, _, _, _)
ExtractLoop(ks, ownedIDs, diff, targetInstanceIDSet, availableContexts) ==
    IF ks = <<>> THEN availableContexts
    ELSE IF Head(ks) \in targetInstanceIDSet
    THEN ExtractLoop(Tail(ks), ownedIDs, diff, targetInstanceIDSet, availableContexts)
    ELSE IF Len(availableContexts) + 1 = diff
    THEN Append(availableContexts, ownedIDs[Head(ks)])
    ELSE ExtractLoop(Tail(ks), ownedIDs, diff, targetInstanceIDSet,
                     Append(availableContexts, ownedIDs[Head(ks)]))

ExtractAvailableContexts_InUseToo(diff, ownedIDs, targetInstanceIDSet) ==
    IF diff <= 0 THEN {<<>>}
    ELSE {ExtractLoop(ks, ownedIDs, diff, {}, <<>>) : ks \in KeyOrders(DOMAIN ownedIDs)}

ExtractAvailableContexts(diff, ownedIDs, targetInstanceIDSet) ==
    IF diff <= 0 THEN {<<>>}
    ELSE {ExtractLoop(ks, ownedIDs, diff, targetInstanceIDSet, <<>>) :
             ks \in KeyOrders(DOMAIN ownedIDs)}

(***************************************************************************)
(* DecideContextRevisionAfterCreate: the detail as the call leaves it, and *)
(* needUpdateContext.  A create error is "nil" or the reason of the API    *)
(* status error.                                                           *)
(***************************************************************************)
CreateErrs == {"nil", "AlreadyExists", "Timeout", "Forbidden", "Invalid"}

UnrecoverableCreateError_ForbiddenOnly(createErr) == createErr = "Forbidden"

UnrecoverableCreateError(createErr) == createErr = "Forbidden" \/ createErr = "Invalid"

DecideContextRevisionAfterCreate_FlagsCleared(contextDetail, updatedRevision, createErr) ==
    IF createErr = "Forbidden" \/ createErr = "Invalid"
    THEN IF Contains(contextDetail, JustCreateKey, "true")
            \/ Contains(contextDetail, RecreateUpdateKey, "true")
         THEN [detail |-> Remove(Remove(Remove(Put(contextDetail, RevisionKey, updatedRevision),
                                               TargetDecorationRevisionKey),
                                        JustCreateKey), RecreateUpdateKey),
               needUpdateContext |-> TRUE]
         ELSE [detail |-> contextDetail, needUpdateContext |-> FALSE]
    ELSE [detail |-> Remove(Remove(contextDetail, JustCreateKey), RecreateUpdateKey),
          needUpdateContext |-> TRUE]

DecideContextRevisionAfterCreate_AnyError(contextDetail, updatedRevision, createErr) ==
    IF createErr # "nil"
    THEN IF Contains(contextDetail, JustCreateKey, "true")
            \/ Contains(contextDetail, RecreateUpdateKey, "true")
         THEN [detail |-> Remove(Put(contextDetail, RevisionKey, updatedRevision),
                                 TargetDecorationRevisionKey),
               needUpdateContext |-> TRUE]
         ELSE [detail |-> contextDetail, needUpdateContext |-> FALSE]
    ELSE [detail |-> Remove(Remove(contextDetail, JustCreateKey), RecreateUpdateKey),
          needUpdateContext |-> TRUE]

DecideContextRevisionAfterCreate(contextDetail, updatedRevision, createErr) ==
    IF UnrecoverableCreateError(createErr)
    THEN IF Contains(contextDetail, JustCreateKey, "true")
            \/ Contains(contextDetail, RecreateUpdateKey, "true")
         THEN [detail |-> Remove(Put(contextDetail, RevisionKey, updatedRevision),
                                 TargetDecorationRevisionKey),
               needUpdateContext |-> TRUE]
         ELSE [detail |-> contextDetail, needUpdateContext |-> FALSE]
    ELSE [detail |-> Remove(Remove(contextDetail, JustCreateKey), RecreateUpdateKey),
          needUpdateContext |-> TRUE]

(***************************************************************************)
(* The API server, for the one ResourceContext object of the model:        *)
(* Create fails if the object exists; Update fails if it is gone, or if it *)
(* was written since the caller's Get (resourceVersion); Delete carries no *)
(* precondition and fails only if the object is gone.                      *)
(***************************************************************************)
ApiCreate(obj, contexts) ==
    IF obj.exists THEN [rc |-> obj, err |-> "AlreadyExists"]
    ELSE [rc |-> [exists |-> TRUE, contexts |-> contexts], err |-> "nil"]

ApiUpdate(obj, stale, contexts) ==
    IF ~obj.exists THEN [rc |-> obj, err |-> "NotFound"]
    ELSE IF stale THEN [rc |-> obj, err |-> "Conflict"]
    ELSE [rc |-> [exists |-> TRUE, contexts |-> contexts], err |-> "nil"]

ApiDelete(obj) ==
    IF ~obj.exists THEN [rc |-> obj, err |-> "NotFound"]
    ELSE [rc |-> [exists |-> FALSE, contexts |-> <<>>], err |-> "nil"]

(***************************************************************************)
(* State.                                                                  *)
(*   rc    the ResourceContext object on the API server                    *)
(*   pool  whether ScaleStrategy.Context names a shared pool               *)
(*   op    per parent, the ResourceContextControl call in flight: its      *)
(*         arguments, its local variables and what it returned             *)
(*         (the local variables are dropped when the call returns), and    *)
(*         in fixed the parent spec and target list of a caller that       *)
(*         passes the same ones on every call                              *)
(*   parent   the XSet object on the API server: whether it exists, its    *)
(*            deletion timestamp, the controller's finalizer, and the      *)
(*            XSetTerminating condition of its status                      *)
(*   targets  per instance ID, the filtered target carrying it             *)
(*   pending  whether the parent key has an unfulfilled cache expectation  *)
(*   rec      the reconcile of the parent key in flight: its position, the *)
(*            instance it read, its local variables and the client calls   *)
(*            it has issued                                                *)
(***************************************************************************)
VARIABLES rc, pool, op, parent, targets, pending, rec

ctxVars == <<rc, pool, op>>

recVars == <<parent, targets, pending, rec>>

vars == <<rc, pool, op, parent, targets, pending, rec>>

NoObject == [exists |-> FALSE, contexts |-> <<>>]

IdleOp ==
    [kind |-> "none", pc |-> "idle", spec |-> XSetSpec(Nil, "", [kind |-> "none"]),
     replicas |-> 0, notFound |-> FALSE, read |-> <<>>, stale |-> FALSE,
     owned0 |-> EmptyMap, existingIDs |-> EmptyMap, unRecordedIDs |-> EmptyMap,
     ownedIDs |-> EmptyMap, adopted |-> EmptyMap, newIDs |-> EmptyMap,
     decided |-> EmptyMap, objs |-> <<>>, write |-> "none", calls |-> <<>>,
     expects |-> <<>>, get |-> "", extracted |-> FALSE, diff |-> 0, inUse |-> {},
     available |-> <<>>, created |-> <<>>, fixed |-> <<>>, err |-> "nil"]

ContextOf(p) == IF pool THEN PoolName ELSE ""

CanCall(p) == op[p].pc \in {"idle", "done"}

Returned(call, err, calls) ==
    [IdleOp EXCEPT !.kind = call.kind, !.pc = "done", !.get = call.get,
                   !.fixed = call.fixed,
                   !.ownedIDs = IF call.kind = "AllocateID" THEN call.ownedIDs ELSE EmptyMap,
                   !.err = err, !.calls = calls]

(***************************************************************************)
(* Client.Get of the ResourceContext, as the three operations begin: it    *)
(* fails for a reason of its own (getErr), or with NotFound, or returns    *)
(* the object.  An error other than NotFound ends the operation.           *)
(***************************************************************************)
ClientGet(getErr) ==
    IF getErr THEN "ServerError" ELSE IF ~rc.exists THEN "NotFound" ELSE "nil"

GetFailed_NotFoundOnly(err) == err = "NotFound"

GetFailed(err) == err # "nil" /\ err # "NotFound"

(***************************************************************************)
(* AllocateID up to its return or its client write: Get, the partition     *)
(* into ownedIDs and existingIDs, the unrecorded ids, the early exit, and  *)
(* doAllocateID.                                                           *)
(***************************************************************************)
HasEnoughIDs_Strict(ownedIDs, unRecordedIDs, replicas) ==
    Cardinality(DOMAIN ownedIDs) > replicas /\ unRecordedIDs = EmptyMap

HasEnoughIDs(ownedIDs, unRecordedIDs, replicas) ==
    Cardinality(DOMAIN ownedIDs) >= replicas /\ unRecordedIDs = EmptyMap

AllocateIDGet(p, spec, currentRevision, updatedRevision, replicas, objs, getErr) ==
    /\ CanCall(p)
    /\ LET notFound == ~rc.exists
           read == rc.contexts
           ownedIDs == OwnedIDsOf(read, p)
           existingIDs == ExistingIDsOf(read, p, spec)
           unRecordedIDs == getUnRecordTargetIDs(existingIDs, objs, currentRevision)
           call == [IdleOp EXCEPT !.kind = "AllocateID", !.spec = spec, !.replicas = replicas,
                                  !.get = ClientGet(getErr), !.fixed = op[p].fixed]
           allocated == doAllocateID(ownedIDs, existingIDs, unRecordedIDs, replicas, p, spec,
                                     currentRevision, updatedRevision)
       IN  IF GetFailed(ClientGet(getErr))
           THEN op' = [op EXCEPT ![p] = Returned(call, "GetFailed", <<>>)]
           ELSE IF HasEnoughIDs(ownedIDs, unRecordedIDs, replicas)
           THEN op' = [op EXCEPT ![p] = Returned([call EXCEPT !.ownedIDs = ownedIDs], "nil", <<>>)]
           ELSE op' = [op EXCEPT ![p] =
                          [call EXCEPT !.pc = "write", !.notFound = notFound, !.read = read,
                                       !.owned0 = ownedIDs, !.existingIDs = existingIDs,
                                       !.objs = objs, !.unRecordedIDs = unRecordedIDs,
                                       !.ownedIDs = allocated.ownedIDs,
                                       !.adopted = allocated.adopted,
                                       !.newIDs = allocated.newIDs,
                                       !.decided = allocated.decided,
                                       !.write = IF notFound THEN "Create" ELSE "Update"]]
    /\ UNCHANGED <<rc, pool>>

(***************************************************************************)
(* CleanUnusedIDs up to its return or its client write.  The owned ids not *)
(* carried by a current target are collected by ranging over the map, so   *)
(* any needCleanCount of them may be the ones removed.  A call that        *)
(* returns without a write keeps its arguments in op.                      *)
(***************************************************************************)
CurrentIDs(objs) ==
    {GetInstanceID(objs[i]).id : i \in {j \in 1..Len(objs) : ~GetInstanceID(objs[j]).err}}

needCleanCount_ReplicasOnly(ownedIDs, spec, objs) ==
    Cardinality(DOMAIN ownedIDs) - Deref(spec.Replicas, 0)

needCleanCount(ownedIDs, spec, objs) ==
    Cardinality(DOMAIN ownedIDs) - maxInt(Deref(spec.Replicas, 0), Len(objs))

allowDeleteIDs_All(ownedIDs, objs) == {ownedIDs[i].ID : i \in DOMAIN ownedIDs}

allowDeleteIDs(ownedIDs, objs) ==
    {ownedIDs[i].ID : i \in DOMAIN ownedIDs} \ CurrentIDs(objs)

CleanUnusedIDsGet(p, spec, objs, getErr) ==
    /\ CanCall(p)
    /\ LET ownedIDs == OwnedIDsOf(rc.contexts, p)
           count == IF Cardinality(allowDeleteIDs(ownedIDs, objs)) < needCleanCount(ownedIDs, spec, objs)
                    THEN Cardinality(allowDeleteIDs(ownedIDs, objs))
                    ELSE needCleanCount(ownedIDs, spec, objs)
           call == [IdleOp EXCEPT !.kind = "CleanUnusedIDs", !.spec = spec,
                                  !.replicas = Deref(spec.Replicas, 0),
                                  !.get = ClientGet(getErr), !.fixed = op[p].fixed]
       IN  IF GetFailed(ClientGet(getErr))
           THEN op' = [op EXCEPT ![p] = Returned(call, "GetFailed", <<>>)]
           ELSE IF ~rc.exists
           THEN op' = [op EXCEPT ![p] = Returned(call, "nil", <<>>)]
           ELSE IF needCleanCount(ownedIDs, spec, objs) <= 0
           THEN op' = [op EXCEPT ![p] = [Returned(call, "nil", <<>>) EXCEPT
                                            !.spec = spec, !.objs = objs]]
           ELSE IF allowDeleteIDs(ownedIDs, objs) = {}
           THEN op' = [op EXCEPT ![p] = [Returned(call, "nil", <<>>) EXCEPT
                                            !.spec = spec, !.objs = objs]]
           ELSE \E deleted \in SUBSET allowDeleteIDs(ownedIDs, objs) :
                   /\ Cardinality(deleted) = count
                   /\ op' = [op EXCEPT ![p] =
                          [call EXCEPT !.pc = "write", !.read = rc.contexts,
                                       !.owned0 = ownedIDs, !.objs = objs,
                                       !.ownedIDs = [id \in (DOMAIN ownedIDs) \ deleted |-> ownedIDs[id]],
                                       !.write = "Update"]]
    /\ UNCHANGED <<rc, pool>>

(***************************************************************************)
(* UpdateToTargetContext up to its return or its client writes.  When the  *)
(* object is not found and ownedIDs is not empty, doCreateTargetContext is *)
(* followed by doUpdateTargetContext on the object the failed Get left     *)
(* blank.                                                                  *)
(***************************************************************************)
UpdateToTargetContextGet(p, spec, ownedIDs, getErr) ==
    /\ CanCall(p)
    /\ LET call == [IdleOp EXCEPT !.kind = "UpdateToTargetContext", !.spec = spec,
                                  !.ownedIDs = ownedIDs, !.get = ClientGet(getErr),
                                  !.fixed = op[p].fixed]
       IN  IF GetFailed(ClientGet(getErr))
           THEN op' = [op EXCEPT ![p] = Returned(call, "GetFailed", <<>>)]
           ELSE IF ~rc.exists
           THEN IF ownedIDs = EmptyMap
                THEN op' = [op EXCEPT ![p] = Returned(call, "nil", <<>>)]
                ELSE op' = [op EXCEPT ![p] = [call EXCEPT !.pc = "write", !.notFound = TRUE,
                                                          !.write = "CreateThenUpdate"]]
           ELSE op' = [op EXCEPT ![p] = [call EXCEPT !.pc = "write", !.read = rc.contexts,
                                                     !.owned0 = OwnedIDsOf(rc.contexts, p),
                                                     !.write = "Update"]]
    /\ UNCHANGED <<rc, pool>>

(***************************************************************************)
(* The client writes of doCreateTargetContext and doUpdateTargetContext    *)
(* and what they return.  fail: the call fails for a reason of its own     *)
(* (network, throttling).                                                  *)
(***************************************************************************)
Failed(obj) == [rc |-> obj, err |-> "ServerError"]

Expect_Always(err, expectation) == <<expectation>>

Expect(err, expectation) == IF err = "nil" THEN <<expectation>> ELSE <<>>

doCreateTargetContext(obj, ownerIDs, fail) ==
    {[rc |-> res.rc, err |-> res.err, calls |-> <<[verb |-> "Create", err |-> res.err]>>,
      expects |-> Expect(res.err, "ExpectCreation")] :
        res \in {IF fail THEN Failed(obj) ELSE ApiCreate(obj, SortByID(order)) :
                    order \in RangeOrders(ownerIDs)}}

doUpdateTargetContext(obj, ownedIDs, read, stale, spec, name, fail) ==
    LET existingIDs == MergedIDs(ownedIDs, read, spec, name)
    IN  IF existingIDs = EmptyMap
        THEN LET res == IF fail THEN Failed(obj) ELSE ApiDelete(obj)
             IN  {[rc |-> res.rc, err |-> res.err,
                   calls |-> <<[verb |-> "Delete", err |-> res.err]>>,
                   expects |-> Expect(res.err, "ExpectDeletion")]}
        ELSE {[rc |-> res.rc, err |-> res.err, calls |-> <<[verb |-> "Update", err |-> res.err]>>,
               expects |-> Expect(res.err, "ExpectUpdation")] :
                 res \in {IF fail THEN Failed(obj) ELSE ApiUpdate(obj, stale, SortByID(order)) :
                             order \in RangeOrders(existingIDs)}}

Outcomes(p, fail) ==
    LET o == op[p]
    IN  CASE o.write = "Create" -> doCreateTargetContext(rc, o.ownedIDs, fail)
          [] o.write = "Update" ->
                doUpdateTargetContext(rc, o.ownedIDs, o.read, o.stale, o.spec, p, fail)
          [] o.write = "CreateThenUpdate" ->
                {IF c.err # "nil" THEN c
                 ELSE [rc |-> c.rc, err |-> "InvalidObject",
                       calls |-> c.calls \o <<[verb |-> "Update", err |-> "InvalidObject"]>>,
                       expects |-> c.expects] :
                    c \in doCreateTargetContext(rc, o.ownedIDs, fail)}

ClientWrite(p, fail) ==
    /\ op[p].pc = "write"
    /\ \E out \in Outcomes(p, fail) :
          /\ rc' = out.rc
          /\ op' = [q \in Parents |->
                       IF q = p
                       THEN [Returned(op[p], out.err, out.calls) EXCEPT !.expects = out.expects]
                       ELSE [op[q] EXCEPT !.stale = op[q].stale \/ (op[q].pc = "write" /\ out.rc # rc)]]
    /\ UNCHANGED pool

(***************************************************************************)
(* Inputs.                                                                 *)
(***************************************************************************)
CurrentRevision == "r1"

UpdatedRevision == "r2"

Target(deleting, labels) == [deleting |-> deleting, labels |-> labels]

LiveTarget(id) == Target(FALSE, InstanceIdLabel :> id)

PoolObjs == {<<>>, <<LiveTarget(<<"1">>)>>}

Rec(id, owner, revision) == Detail(id, (OwnerKey :> owner) @@ (RevisionKey :> revision))

Stored(contexts) == [exists |-> TRUE, contexts |-> contexts]

PoolSpec(replicas) == XSetSpec(Ptr(replicas), PoolName, [kind |-> "byLabel"])

(***************************************************************************)
(* The reconciler (xset_controller.go), for the parent key Caller.         *)
(*                                                                         *)
(* XSetTerminating is a record [status, reason]; NoCondition is its        *)
(* absence.  AddOrUpdateCondition sets the status True when it is given no *)
(* error and False otherwise; CalculateStatus returns the status the sync  *)
(* context holds, the condition kept.                                      *)
(***************************************************************************)
Caller == "a"

NoCondition == [status |-> "", reason |-> ""]

AddOrUpdateCondition(err, reason) ==
    [status |-> IF err = "nil" THEN "True" ELSE "False", reason |-> reason]

CalculateStatus(newStatus) == newStatus

Gone == [exists |-> FALSE, deleting |-> FALSE, finalizer |-> FALSE, cond |-> NoCondition]

TargetIDs == 0..MaxSyncReplicas

Digits == <<"0", "1", "2", "3", "4", "5", "6", "7", "8", "9">>

GetFilteredTargets ==
    LET ids == {id \in TargetIDs : targets[id] # "none"}
    IN  [i \in 1..Cardinality(ids) |->
            LET id == CHOOSE k \in ids : Cardinality({j \in ids : j < k}) = i - 1
            IN  Target(targets[id] = "terminating", InstanceIdLabel :> <<Digits[id + 1]>>)]

(***************************************************************************)
(* reconcile.Result, and requeueResult: a *time.Duration (Nil, or Ptr of a *)
(* number of seconds) as the Result of the reconcile.                      *)
(***************************************************************************)
Result(requeue, requeueAfter) == [Requeue |-> requeue, RequeueAfter |-> requeueAfter]

requeueResult(requeueTime) ==
    IF requeueTime # Nil
    THEN IF requeueTime[1] = 0 THEN Result(TRUE, 0) ELSE Result(FALSE, requeueTime[1])
    ELSE Result(FALSE, 0)

(***************************************************************************)
(* errors.Join: nil if every error is nil, else the non-nil errors, whose  *)
(* message is their messages joined by newlines.                           *)
(***************************************************************************)
errorsJoin_FirstOnly(errs) ==
    IF \A i \in 1..Len(errs) : errs[i] = "nil" THEN "nil"
    ELSE errs[CHOOSE i \in 1..Len(errs) :
                  errs[i] # "nil" /\ \A j \in 1..(i - 1) : errs[j] = "nil"]

RECURSIVE errorsJoin(_)
errorsJoin(errs) ==
    IF errs = <<>> THEN "nil"
    ELSE LET rest == errorsJoin(Tail(errs))
         IN  IF Head(errs) = "nil" THEN rest
             ELSE IF rest = "nil" THEN Head(errs)
             ELSE Head(errs) \o "\n" \o rest

IdleRec ==
    [pc |-> "idle", inst |-> Gone, gated |-> FALSE, newStatus |-> NoCondition,
     cleaned |-> FALSE, released |-> "unset", stale |-> FALSE, syncErr |-> "nil",
     scaleErr |-> "nil", scaleRequeueAfter |-> Nil, updateRequeueAfter |-> Nil,
     requeueAfter |-> Nil, result |-> Result(FALSE, 0), calls |-> <<>>, err |-> "nil"]

Issue(call, err) == rec.calls \o <<[call |-> call, err |-> err]>>

Return(err) == [rec EXCEPT !.pc = "done", !.err = err]

XSetSpecOf(replicas) == XSetSpec(Ptr(replicas), ContextOf(Caller), [kind |-> "none"])

(***************************************************************************)
(* Reconcile: Get the parent.  NotFound discards the expectations.         *)
(***************************************************************************)
DeleteExpectations_Kept(expectations) == expectations

DeleteExpectations(expectations) == FALSE

ReconcileGet(getErr) ==
    /\ rec.pc \in {"idle", "done"}
    /\ IF getErr
       THEN rec' = [IdleRec EXCEPT !.pc = "done", !.err = "GetFailed"] /\ UNCHANGED pending
       ELSE IF ~parent.exists
       THEN rec' = [IdleRec EXCEPT !.pc = "done"] /\ pending' = DeleteExpectations(pending)
       ELSE rec' = [IdleRec EXCEPT !.pc = "ensureFinalizer", !.inst = parent] /\ UNCHANGED pending
    /\ UNCHANGED <<parent, targets, ctxVars>>

(***************************************************************************)
(* ensureFinalizer.  AddFinalizerAndUpdate and RemoveFinalizerAndUpdate    *)
(* update the parent if the finalizer is missing, or present.  Removing    *)
(* the finalizer of a parent being deleted lets the API server drop it.    *)
(***************************************************************************)
ShouldRemoveFinalizer_AnyCondition(instance) == instance.cond # NoCondition

ShouldRemoveFinalizer(instance) ==
    /\ instance.cond # NoCondition
    /\ instance.cond.status = "True"
    /\ instance.cond.reason = "Deleted"

ensureFinalizer(fail) ==
    /\ rec.pc = "ensureFinalizer"
    /\ IF ~rec.inst.deleting
       THEN IF rec.inst.finalizer
            THEN rec' = [rec EXCEPT !.pc = "gate"] /\ UNCHANGED parent
            ELSE LET err == IF fail THEN "ServerError"
                            ELSE IF ~parent.exists THEN "NotFound" ELSE "nil"
                 IN  /\ parent' = IF err = "nil" THEN [parent EXCEPT !.finalizer = TRUE]
                                  ELSE parent
                     /\ rec' = IF err = "nil"
                               THEN [rec EXCEPT !.pc = "gate", !.inst.finalizer = TRUE,
                                                !.calls = Issue("AddFinalizer", err)]
                               ELSE [Return(err) EXCEPT !.calls = Issue("AddFinalizer", err)]
       ELSE IF ShouldRemoveFinalizer(rec.inst) /\ rec.inst.finalizer
            THEN LET err == IF fail THEN "ServerError"
                            ELSE IF ~parent.exists THEN "NotFound" ELSE "nil"
                 IN  /\ parent' = IF err = "nil" THEN Gone ELSE parent
                     /\ rec' = IF err = "nil"
                               THEN [rec EXCEPT !.pc = "gate", !.inst.finalizer = FALSE,
                                                !.calls = Issue("RemoveFinalizer", err)]
                               ELSE [Return(err) EXCEPT !.calls = Issue("RemoveFinalizer", err)]
            ELSE rec' = [rec EXCEPT !.pc = "gate"] /\ UNCHANGED parent
    /\ UNCHANGED <<targets, pending, ctxVars>>

(***************************************************************************)
(* The expectation gate: not satisfied, requeue after 30 s.                *)
(***************************************************************************)
SatisfiedExpectations == ~pending

AfterGate_Ignored(satisfied) == "ConstructRevisions"

AfterGate(satisfied) == IF ~satisfied THEN "done" ELSE "ConstructRevisions"

ExpectationGate ==
    /\ rec.pc = "gate"
    /\ LET satisfied == SatisfiedExpectations
       IN  rec' = [rec EXCEPT !.gated = ~satisfied, !.pc = AfterGate(satisfied),
                              !.result = IF ~satisfied THEN Result(FALSE, 30) ELSE rec.result]
    /\ UNCHANGED <<parent, targets, pending, ctxVars>>

(***************************************************************************)
(* ConstructRevisions, and newStatus as a copy of the status read.         *)
(***************************************************************************)
ConstructRevisions(fail) ==
    /\ rec.pc = "ConstructRevisions"
    /\ rec' = IF fail
              THEN [Return("ConstructRevisionsFailed") EXCEPT
                        !.calls = Issue("ConstructRevisions", "ServerError")]
              ELSE [rec EXCEPT !.pc = "SyncTargets", !.newStatus = rec.inst.cond,
                               !.calls = Issue("ConstructRevisions", "nil")]
    /\ UNCHANGED <<parent, targets, pending, ctxVars>>

(***************************************************************************)
(* doSync: SyncTargets, which fails, reports synced, or lets the sync go   *)
(* on.  Whatever doSync returns, Reconcile goes on to CalculateStatus and  *)
(* updateStatus.                                                           *)
(***************************************************************************)
AfterDoSync_ReturnOnError(syncErr) == IF syncErr # "nil" THEN "done" ELSE "updateStatus"

AfterDoSync(syncErr) == "updateStatus"

SyncTargets_SyncedGoesOn(synced, fail) ==
    /\ rec.pc = "SyncTargets"
    /\ rec' = IF fail THEN [rec EXCEPT !.pc = AfterDoSync("SyncTargetsFailed"),
                                       !.syncErr = "SyncTargetsFailed"]
              ELSE [rec EXCEPT !.pc = "releaseResourcesForDeletion"]
    /\ UNCHANGED <<parent, targets, pending, ctxVars>>

SyncTargets(synced, fail) ==
    /\ rec.pc = "SyncTargets"
    /\ rec' = IF fail THEN [rec EXCEPT !.pc = AfterDoSync("SyncTargetsFailed"),
                                       !.syncErr = "SyncTargetsFailed"]
              ELSE IF synced THEN [rec EXCEPT !.pc = AfterDoSync("nil")]
              ELSE [rec EXCEPT !.pc = "releaseResourcesForDeletion"]
    /\ UNCHANGED <<parent, targets, pending, ctxVars>>

(***************************************************************************)
(* releaseResourcesForDeletion up to the client write of                   *)
(* UpdateToTargetContext(instance, nil): the sub-resources, the owner      *)
(* references, then ensureReclaimTargetsDeletion, which lists the filtered *)
(* targets and deletes them all if one is not yet terminating.             *)
(***************************************************************************)
Terminated(err, reason) ==
    [rec EXCEPT !.pc = AfterDoSync(IF reason = "ReclaimingTargetsDeletion" THEN "nil" ELSE err),
                !.newStatus = AddOrUpdateCondition(err, reason),
                !.syncErr = IF reason = "ReclaimingTargetsDeletion" THEN "nil" ELSE err]

AfterRelease_ErrorIgnored(err) == [Terminated("nil", "Deleted") EXCEPT !.released = err]

AfterRelease_StaysReclaiming(err) ==
    IF err # "nil"
    THEN [Terminated(err, "ReclaimResourceContext") EXCEPT !.released = err]
    ELSE [Terminated("deleting targets", "ReclaimingTargetsDeletion") EXCEPT !.released = "nil"]

AfterRelease(err) ==
    IF err # "nil"
    THEN [Terminated(err, "ReclaimResourceContext") EXCEPT !.released = err]
    ELSE [Terminated("nil", "Deleted") EXCEPT !.released = "nil"]

BatchDeleteTargetsByLabel ==
    [id \in TargetIDs |-> IF targets[id] = "live" THEN "terminating" ELSE targets[id]]

releaseResourcesForDeletion_NeverTerminating(subErr, refErr, listErr, deleteErr, getErr) ==
    /\ rec.pc = "releaseResourcesForDeletion"
    /\ rec' = [rec EXCEPT !.pc = "Replace"]
    /\ UNCHANGED <<parent, targets, pending, ctxVars>>

releaseResourcesForDeletion(subErr, refErr, listErr, deleteErr, getErr) ==
    /\ rec.pc = "releaseResourcesForDeletion"
    /\ IF ~rec.inst.deleting
       THEN rec' = [rec EXCEPT !.pc = "Replace"] /\ UNCHANGED <<targets, ctxVars>>
       ELSE IF subErr
       THEN rec' = Terminated("OrphanPvcFailed", "ReclaimSubResourcesFailed")
            /\ UNCHANGED <<targets, ctxVars>>
       ELSE IF refErr
       THEN rec' = Terminated("UpdateTargetFailed", "ReclaimOwnerReferencesFailed")
            /\ UNCHANGED <<targets, ctxVars>>
       ELSE IF listErr
       THEN rec' = Terminated("ListFailed", "ReclaimTargetsDeletionFailed")
            /\ UNCHANGED <<targets, ctxVars>>
       ELSE IF GetFilteredTargets # <<>>
       THEN IF \E i \in 1..Len(GetFilteredTargets) : ~GetFilteredTargets[i].deleting
            THEN IF deleteErr
                 THEN /\ rec' = [Terminated("DeleteFailed", "ReclaimTargetsDeletionFailed")
                                    EXCEPT !.calls = Issue("BatchDeleteTargets", "ServerError")]
                      /\ UNCHANGED <<targets, ctxVars>>
                 ELSE /\ rec' = [Terminated("deleting targets", "ReclaimingTargetsDeletion")
                                    EXCEPT !.calls = Issue("BatchDeleteTargets", "nil")]
                      /\ targets' = BatchDeleteTargetsByLabel
                      /\ UNCHANGED ctxVars
            ELSE /\ rec' = Terminated("deleting targets", "ReclaimingTargetsDeletion")
                 /\ UNCHANGED <<targets, ctxVars>>
       ELSE /\ UpdateToTargetContextGet(Caller, XSetSpecOf(0), EmptyMap, getErr)
            /\ rec' = IF op'[Caller].pc = "write"
                      THEN [rec EXCEPT !.pc = "releaseWrite", !.cleaned = TRUE]
                      ELSE [AfterRelease(op'[Caller].err) EXCEPT !.cleaned = TRUE]
            /\ UNCHANGED targets
    /\ UNCHANGED <<parent, pending>>

(***************************************************************************)
(* A client write of the ResourceContext during the reconcile registers    *)
(* an expectation for the parent key when it succeeds.                     *)
(***************************************************************************)
Logged(calls) ==
    rec.calls \o [i \in 1..Len(calls) |->
                     [call |-> "ResourceContext." \o calls[i].verb, err |-> calls[i].err]]

releaseWrite(fail) ==
    /\ rec.pc = "releaseWrite"
    /\ ClientWrite(Caller, fail)
    /\ rec' = [AfterRelease(op'[Caller].err) EXCEPT !.calls = Logged(op'[Caller].calls)]
    /\ pending' = (pending \/ op'[Caller].expects # <<>>)
    /\ UNCHANGED <<parent, targets>>

(***************************************************************************)
(* Scale, for a parent that is not being deleted: AllocateID for the       *)
(* replicas of the spec over the filtered targets, then a target for every *)
(* owned ID that has none.                                                 *)
(***************************************************************************)
CreateTargets(ownedIDs) ==
    [id \in TargetIDs |->
        IF id \in DOMAIN ownedIDs /\ targets[id] = "none" THEN "live" ELSE targets[id]]

AfterScale(o, scaleRequeueAfter) ==
    IF o.err # "nil"
    THEN [rec EXCEPT !.pc = "Update", !.scaleErr = o.err,
                     !.scaleRequeueAfter = scaleRequeueAfter, !.calls = Logged(o.calls)]
    ELSE [rec EXCEPT !.pc = "Update", !.scaleRequeueAfter = scaleRequeueAfter,
                     !.calls = Logged(o.calls) \o
                               IF CreateTargets(o.ownedIDs) # targets
                               THEN <<[call |-> "CreateTargets", err |-> "nil"]>> ELSE <<>>]

Scale(replicas, getErr, scaleRequeueAfter) ==
    /\ rec.pc = "Scale"
    /\ AllocateIDGet(Caller, XSetSpecOf(replicas), CurrentRevision, UpdatedRevision,
                     replicas, GetFilteredTargets, getErr)
    /\ IF op'[Caller].pc = "write"
       THEN rec' = [rec EXCEPT !.pc = "scaleWrite"] /\ UNCHANGED targets
       ELSE /\ rec' = AfterScale(op'[Caller], scaleRequeueAfter)
            /\ targets' = IF op'[Caller].err = "nil"
                          THEN CreateTargets(op'[Caller].ownedIDs) ELSE targets
    /\ pending' = (pending \/ targets' # targets)
    /\ UNCHANGED parent

scaleWrite(fail, scaleRequeueAfter) ==
    /\ rec.pc = "scaleWrite"
    /\ ClientWrite(Caller, fail)
    /\ rec' = AfterScale(op'[Caller], scaleRequeueAfter)
    /\ targets' = IF op'[Caller].err = "nil" THEN CreateTargets(op'[Caller].ownedIDs) ELSE targets
    /\ pending' = (pending \/ op'[Caller].expects # <<>>)
    /\ UNCHANGED parent

(***************************************************************************)
(* Replace, before Scale: its error ends doSync.                           *)
(***************************************************************************)
Replace(fail) ==
    /\ rec.pc = "Replace"
    /\ rec' = IF fail
              THEN [rec EXCEPT !.pc = AfterDoSync("ReplaceFailed"), !.syncErr = "ReplaceFailed",
                               !.calls = Issue("Replace", "ServerError")]
              ELSE [rec EXCEPT !.pc = "Scale"]
    /\ UNCHANGED <<parent, targets, pending, ctxVars>>

(***************************************************************************)
(* Update and ApplyTemplatePatcher, after Scale whatever Scale returned,   *)
(* then the end of doSync: the errors joined, and the requeue-after of     *)
(* Update if it is there and Scale's is not or is longer, else Scale's.    *)
(***************************************************************************)
Durations == {Nil} \cup {Ptr(d) : d \in 0..MaxRequeue}

doSyncRequeue_ScaleFirst(scaleRequeueAfter, updateRequeueAfter) ==
    IF scaleRequeueAfter # Nil THEN scaleRequeueAfter ELSE updateRequeueAfter

doSyncRequeue(scaleRequeueAfter, updateRequeueAfter) ==
    IF updateRequeueAfter # Nil
       /\ (scaleRequeueAfter = Nil \/ updateRequeueAfter[1] < scaleRequeueAfter[1])
    THEN updateRequeueAfter
    ELSE scaleRequeueAfter

Update(updateRequeueAfter, updateErr, patcherErr) ==
    /\ rec.pc = "Update"
    /\ LET err == errorsJoin(<<rec.scaleErr,
                               IF updateErr THEN "UpdateFailed" ELSE "nil",
                               IF patcherErr THEN "ApplyTemplatePatcherFailed" ELSE "nil">>)
       IN  rec' = [rec EXCEPT !.pc = AfterDoSync(err), !.syncErr = err,
                              !.updateRequeueAfter = updateRequeueAfter,
                              !.requeueAfter = doSyncRequeue(rec.scaleRequeueAfter,
                                                             updateRequeueAfter),
                              !.calls = IF updateErr THEN Issue("UpdateTargets", "ServerError")
                                        ELSE rec.calls]
    /\ UNCHANGED <<parent, targets, pending, ctxVars>>

(***************************************************************************)
(* CalculateStatus and updateStatus: the status update is checked against  *)
(* the resourceVersion of the instance read, and registers an expectation. *)
(***************************************************************************)
updateStatus(fail) ==
    /\ rec.pc = "updateStatus"
    /\ LET err == IF fail THEN "ServerError"
                  ELSE IF ~parent.exists THEN "NotFound"
                  ELSE IF rec.stale THEN "Conflict" ELSE "nil"
       IN  /\ parent' = IF err = "nil"
                        THEN [parent EXCEPT !.cond = CalculateStatus(rec.newStatus)]
                        ELSE parent
           /\ pending' = (pending \/ err = "nil")
           /\ rec' = [Return(IF err # "nil" THEN "UpdateStatusFailed" ELSE rec.syncErr)
                         EXCEPT !.calls = Issue("UpdateStatus", err),
                                !.result = requeueResult(rec.requeueAfter)]
    /\ UNCHANGED <<targets, ctxVars>>

(***************************************************************************)
(* The environment: the user deletes the parent (it is dropped at once if  *)
(* it has no finalizer), a terminating target goes away, the informer      *)
(* cache catches up with the writes (or the expectations time out).        *)
(***************************************************************************)
DeleteParent ==
    /\ parent.exists /\ ~parent.deleting
    /\ parent' = IF parent.finalizer THEN [parent EXCEPT !.deleting = TRUE] ELSE Gone
    /\ rec' = [rec EXCEPT !.stale = rec.pc \notin {"idle", "done"}]
    /\ UNCHANGED <<targets, pending, ctxVars>>

TargetGone ==
    /\ \E id \in TargetIDs :
          /\ targets[id] = "terminating"
          /\ targets' = [targets EXCEPT ![id] = "none"]
    /\ UNCHANGED <<parent, pending, rec, ctxVars>>

CacheSynced ==
    /\ pending
    /\ pending' = FALSE
    /\ UNCHANGED <<parent, targets, rec, ctxVars>>

InitReconciler ==
    /\ parent = [exists |-> TRUE, deleting |-> FALSE, finalizer |-> FALSE, cond |-> NoCondition]
    /\ targets = [id \in TargetIDs |-> "none"]
    /\ pending = FALSE
    /\ rec = IdleRec

Init ==
    /\ pool \in BOOLEAN
    /\ rc \in {NoObject} \cup IF pool THEN {Stored(<<Rec(0, "b", CurrentRevision)>>)} ELSE {}
    /\ op = [p \in Parents |-> IdleOp]
    /\ InitReconciler

Next ==
    \/ \E getErr \in BOOLEAN : ReconcileGet(getErr)
    \/ \E fail \in BOOLEAN : ensureFinalizer(fail)
    \/ ExpectationGate
    \/ \E fail \in BOOLEAN : ConstructRevisions(fail)
    \/ \E synced, fail \in BOOLEAN : SyncTargets(synced, fail)
    \/ \E subErr, refErr, listErr, deleteErr, getErr \in BOOLEAN :
          releaseResourcesForDeletion(subErr, refErr, listErr, deleteErr, getErr)
    \/ \E fail \in BOOLEAN : releaseWrite(fail)
    \/ \E fail \in BOOLEAN : Replace(fail)
    \/ \E replicas \in 0..MaxSyncReplicas, getErr \in BOOLEAN, scaleRequeueAfter \in Durations :
          Scale(replicas, getErr, scaleRequeueAfter)
    \/ \E fail \in BOOLEAN, scaleRequeueAfter \in Durations : scaleWrite(fail, scaleRequeueAfter)
    \/ \E updateRequeueAfter \in Durations, updateErr, patcherErr \in BOOLEAN :
          Update(updateRequeueAfter, updateErr, patcherErr)
    \/ \E fail \in BOOLEAN : updateStatus(fail)
    \/ DeleteParent
    \/ TargetGone
    \/ CacheSynced

Spec == Init /\ [][Next]_vars

(***************************************************************************)
(* SpecLive: Spec with the scheduling of the controller.  The work queue   *)
(* keeps handing the key of a parent that exists to Reconcile (a          *)
(* reconcile that returned an error, a requeue or wrote the parent or a    *)
(* target is followed by another) and a reconcile once started runs to its *)
(* return; a target with a deletion                                        *)
(* timestamp goes away; the informer cache catches up with the writes or   *)
(* the expectations time out.                                              *)
(***************************************************************************)
ReconcileStep ==
    \/ \E getErr \in BOOLEAN : ReconcileGet(getErr)
    \/ \E fail \in BOOLEAN : ensureFinalizer(fail)
    \/ ExpectationGate
    \/ \E fail \in BOOLEAN : ConstructRevisions(fail)
    \/ \E synced, fail \in BOOLEAN : SyncTargets(synced, fail)
    \/ \E subErr, refErr, listErr, deleteErr, getErr \in BOOLEAN :
          releaseResourcesForDeletion(subErr, refErr, listErr, deleteErr, getErr)
    \/ \E fail \in BOOLEAN : releaseWrite(fail)
    \/ \E fail \in BOOLEAN : Replace(fail)
    \/ \E replicas \in 0..MaxSyncReplicas, getErr \in BOOLEAN, scaleRequeueAfter \in Durations :
          Scale(replicas, getErr, scaleRequeueAfter)
    \/ \E fail \in BOOLEAN, scaleRequeueAfter \in Durations : scaleWrite(fail, scaleRequeueAfter)
    \/ \E updateRequeueAfter \in Durations, updateErr, patcherErr \in BOOLEAN :
          Update(updateRequeueAfter, updateErr, patcherErr)
    \/ \E fail \in BOOLEAN : updateStatus(fail)

Triggered == parent.exists \/ rec.pc \notin {"idle", "done"}

LiveFairness ==
    /\ WF_vars(Triggered /\ ReconcileStep)
    /\ WF_vars(TargetGone)
    /\ WF_vars(CacheSynced)

SpecLive == Init /\ [][Next]_vars /\ LiveFairness

(***************************************************************************)
(* SpecAlloc: two parents sharing one pool call AllocateID, each call a    *)
(* Get and later a write, in any interleaving.                             *)
(***************************************************************************)
InitPool ==
    /\ rc = NoObject
    /\ pool = TRUE
    /\ op = [p \in Parents |-> IdleOp]
    /\ InitReconciler

AllocObjs ==
    {<<>>,
     <<Target(FALSE, (InstanceIdLabel :> <<"0">>) @@ (RevisionLabel :> UpdatedRevision)),
       LiveTarget(<<"3">>)>>}

AllocSpecs(replicas) ==
    {XSetSpec(Ptr(replicas), PoolName, ru) : ru \in {[kind |-> "none"], [kind |-> "byLabel"]}}

AllocateStep ==
    /\ \E p \in Parents, replicas \in 0..MaxReplicas, objs \in AllocObjs, getErr \in BOOLEAN :
          \E spec \in AllocSpecs(replicas) :
              AllocateIDGet(p, spec, CurrentRevision, UpdatedRevision, replicas, objs, getErr)
    /\ UNCHANGED recVars

WriteStep ==
    /\ \E p \in Parents, fail \in BOOLEAN : ClientWrite(p, fail)
    /\ UNCHANGED recVars

NextAlloc == AllocateStep \/ WriteStep

SpecAlloc == InitPool /\ [][NextAlloc]_vars

(***************************************************************************)
(* SpecPool: the two parents call AllocateID, CleanUnusedIDs and           *)
(* UpdateToTargetContext.  UpdateToTargetContext is given the empty map    *)
(* (teardown) or the map the parent's last AllocateID returned, as the     *)
(* sync control hands it on: as returned, or with one id dropped.          *)
(***************************************************************************)
CallerMaps(p) ==
    {EmptyMap} \cup
    IF op[p].kind = "AllocateID" /\ op[p].pc = "done" /\ op[p].err = "nil"
    THEN {op[p].ownedIDs}
         \cup {[id \in (DOMAIN op[p].ownedIDs) \ {gone} |-> op[p].ownedIDs[id]] :
                  gone \in DOMAIN op[p].ownedIDs}
    ELSE {}

PoolAllocateStep ==
    /\ \E p \in Parents, replicas \in 0..MaxPoolReplicas, objs \in PoolObjs, getErr \in BOOLEAN :
          AllocateIDGet(p, PoolSpec(replicas), CurrentRevision, UpdatedRevision, replicas, objs, getErr)
    /\ UNCHANGED recVars

CleanStep ==
    /\ \E p \in Parents, replicas \in 0..MaxPoolReplicas, objs \in PoolObjs, getErr \in BOOLEAN :
          CleanUnusedIDsGet(p, PoolSpec(replicas), objs, getErr)
    /\ UNCHANGED recVars

UpdateStep ==
    /\ \E p \in Parents, getErr \in BOOLEAN :
          \E ownedIDs \in CallerMaps(p) :
              UpdateToTargetContextGet(p, PoolSpec(0), ownedIDs, getErr)
    /\ UNCHANGED recVars

NextPool == PoolAllocateStep \/ CleanStep \/ UpdateStep \/ WriteStep

SpecPool == InitPool /\ [][NextPool]_vars

(***************************************************************************)
(* Claims about the reconciler.                                            *)
(***************************************************************************)
(* C1 as stated: a reconcile in which SatisfiedExpectations returned false *)
(* has issued no mutating client call, the finalizer update included.      *)
C1_AsStated == rec.gated => rec.calls = <<>>

(* C1: a reconcile in which SatisfiedExpectations returned false ends at   *)
(* the gate, and the only mutating client call it has issued is the one    *)
(* finalizer update of ensureFinalizer, which precedes the gate: the add   *)
(* for a parent read without deletion timestamp, the remove for a parent   *)
(* read with one.  It issues no status update and no other write.          *)
C1_GatedCalls ==
    rec.gated =>
        /\ rec.pc = "done"
        /\ Len(rec.calls) <= 1
        /\ \A i \in 1..Len(rec.calls) :
              rec.calls[i].call = IF rec.inst.deleting THEN "RemoveFinalizer" ELSE "AddFinalizer"

C1_Witness ==
    /\ rec.gated
    /\ rec.inst.deleting
    /\ ShouldRemoveFinalizer(rec.inst)
    /\ rec.calls = <<[call |-> "RemoveFinalizer", err |-> "nil"]>>

IsDeleted(cond) == cond.status = "True" /\ cond.reason = "Deleted"

SetsDeleted ==
    /\ rec.pc \in {"releaseResourcesForDeletion", "releaseWrite"}
    /\ rec'.pc = "updateStatus"
    /\ IsDeleted(rec'.newStatus)

PersistsDeleted == ~IsDeleted(parent.cond) /\ IsDeleted(parent'.cond)

(* C2: XSetTerminating takes reason Deleted, in the new status and in the  *)
(* persisted status, only in a reconcile of a deleting parent in which the *)
(* filtered-target query returned no targets and                           *)
(* UpdateToTargetContext(parent, empty) returned no error, and then no     *)
(* filtered target exists and the ResourceContext holds no detail owned by *)
(* the parent.                                                             *)
C2_DeletedAfterRelease ==
    [][(SetsDeleted \/ PersistsDeleted) =>
          /\ rec'.inst.deleting
          /\ rec'.cleaned
          /\ rec'.released = "nil"
          /\ \A id \in TargetIDs : targets'[id] = "none"
          /\ OwnedIDsOf(rc'.contexts, Caller) = EmptyMap]_vars

C2_Witness ==
    /\ parent.exists /\ IsDeleted(parent.cond)
    /\ rec.pc = "done" /\ rec.released = "nil"
    /\ \E i \in 1..Len(rec.calls) :
          rec.calls[i] = [call |-> "ResourceContext.Update", err |-> "nil"]
    /\ rec.calls[Len(rec.calls)] = [call |-> "UpdateStatus", err |-> "nil"]

(* C3: the finalizer is removed only from a parent that has a deletion     *)
(* timestamp, by ensureFinalizer, when the status read at the start of the *)
(* reconcile carries XSetTerminating with status True and reason Deleted;  *)
(* when the parent was read without a deletion timestamp, ensureFinalizer  *)
(* changes the parent only by adding the finalizer.                        *)
C3_FinalizerRemoval ==
    [][/\ (parent.finalizer /\ ~parent'.finalizer) =>
              /\ parent.deleting
              /\ rec.pc = "ensureFinalizer"
              /\ rec.inst.deleting
              /\ rec.inst.cond.status = "True"
              /\ rec.inst.cond.reason = "Deleted"
       /\ (rec.pc = "ensureFinalizer" /\ rec'.pc # rec.pc /\ ~rec.inst.deleting
              /\ parent' # parent) =>
              /\ ~parent.finalizer
              /\ parent' = [parent EXCEPT !.finalizer = TRUE]]_vars

C3_Witness ==
    /\ ~parent.exists
    /\ \E i \in 1..Len(rec.calls) : rec.calls[i] = [call |-> "RemoveFinalizer", err |-> "nil"]

(***************************************************************************)
(* Claims about the shared pool.                                           *)
(***************************************************************************)
IDsOf(contexts) == {contexts[i].ID : i \in 1..Len(contexts)}

WriteBy(p) == op[p].pc = "write" /\ op'[p].pc = "done"

ReturnedOwned(p) ==
    IF op[p].kind = "AllocateID" /\ op[p].pc = "done" /\ op[p].err = "nil"
    THEN DOMAIN op[p].ownedIDs ELSE {}

(* C4: in pool mode, under any interleaving of the two parents' AllocateID *)
(* calls, every ID of the persisted ResourceContext appears once and has   *)
(* one Owner, and no ID is in the owned sets that both parents' successful *)
(* AllocateID calls returned.                                              *)
C4_AtMostOneOwner ==
    /\ \A i, j \in 1..Len(rc.contexts) :
          i # j => rc.contexts[i].ID # rc.contexts[j].ID
    /\ \A i \in 1..Len(rc.contexts) :
          /\ Get(rc.contexts[i], OwnerKey)
          /\ rc.contexts[i].Data[OwnerKey] \in Parents
    /\ \A p, q \in Parents : p # q => ReturnedOwned(p) \cap ReturnedOwned(q) = {}

C4_Witness ==
    /\ \A p \in Parents : ReturnedOwned(p) # {} /\ op[p].calls # <<>>
    /\ \A p \in Parents : OwnedIDsOf(rc.contexts, p) # EmptyMap

Snapshot(p) == [exists |-> ~op[p].notFound, contexts |-> op[p].read]

(* C5: in pool mode, a write by one parent that was computed from a read   *)
(* the object no longer matches is rejected, and no write by one parent    *)
(* removes or changes a detail the other parent has persisted.             *)
C5_StaleWriteRejected ==
    [][\A p \in Parents :
          WriteBy(p) =>
             /\ Snapshot(p) # rc => (rc' = rc /\ op'[p].err # "nil")
             /\ \A q \in Parents \ {p} :
                   OwnedIDsOf(rc'.contexts, q) = OwnedIDsOf(rc.contexts, q)]_vars

(* C6: across any sequence of AllocateID calls, a detail recorded with     *)
(* Owner = parent stays recorded for that parent with the same Data, and   *)
(* is in the owned set every AllocateID of that parent returns.            *)
C6_RecordedIDsStay ==
    [][\A p \in Parents :
          /\ \A id \in DOMAIN OwnedIDsOf(rc.contexts, p) :
                /\ id \in DOMAIN OwnedIDsOf(rc'.contexts, p)
                /\ OwnedIDsOf(rc'.contexts, p)[id] = OwnedIDsOf(rc.contexts, p)[id]
          /\ (CanCall(p) /\ op'[p] # op[p] /\ op'[p].err # "GetFailed") =>
                \A id \in DOMAIN OwnedIDsOf(rc.contexts, p) :
                   /\ id \in DOMAIN op'[p].ownedIDs
                   /\ op'[p].ownedIDs[id] = OwnedIDsOf(rc.contexts, p)[id]]_vars

C6_Witness ==
    \E p \in Parents :
        /\ op[p].pc = "done" /\ op[p].calls # <<>> /\ op[p].err = "nil"
        /\ op[p].calls[1].verb = "Update"
        /\ \E id \in DOMAIN op[p].ownedIDs : id \in DOMAIN OwnedIDsOf(rc.contexts, p)
        /\ Cardinality(DOMAIN OwnedIDsOf(rc.contexts, p)) >= 2

(***************************************************************************)
(* SpecFn: the calls of one reconcile by one parent, owner-local or on a   *)
(* pool: an AllocateID on the ResourceContext earlier reconciles left,     *)
(* then CleanUnusedIDs and UpdateToTargetContext calls.  The targets'      *)
(* instance-id label is a number, negative, or not a number; a target may  *)
(* be being deleted, be a replace-pair target, or carry a revision.        *)
(***************************************************************************)
FnRCs(shared) ==
    {NoObject,
     Stored(<<Rec(0, Caller, CurrentRevision)>>),
     Stored(<<Rec(0, Caller, UpdatedRevision), Rec(1, Caller, CurrentRevision)>>),
     Stored(<<Put(Rec(-1, Caller, CurrentRevision), JustCreateKey, "true"),
              Rec(2, Caller, CurrentRevision)>>)}
    \cup IF shared
         THEN {Stored(<<Rec(1, "b", CurrentRevision)>>),
               Stored(<<Rec(0, "b", CurrentRevision), Rec(2, Caller, CurrentRevision)>>),
               Stored(<<Rec(0, Caller, CurrentRevision), Rec(1, "b", UpdatedRevision),
                        Rec(2, Caller, UpdatedRevision), Rec(4, "b", CurrentRevision)>>)}
         ELSE {}

FnTargets ==
    <<Target(FALSE, (InstanceIdLabel :> <<"0">>) @@ (RevisionLabel :> UpdatedRevision)),
      LiveTarget(<<"3">>), LiveTarget(<<"-", "1">>), LiveTarget(<<"x">>),
      Target(TRUE, InstanceIdLabel :> <<"2">>),
      Target(FALSE, (InstanceIdLabel :> <<"2">>) @@ (ReplacePairOriginLabel :> "origin"))>>

Listed(picked) ==
    [i \in 1..Cardinality(picked) |->
        FnTargets[CHOOSE k \in picked : Cardinality({j \in picked : j < k}) = i - 1]]

FnObjs ==
    {Listed(picked) : picked \in {s \in SUBSET (1..Len(FnTargets)) : Cardinality(s) <= MaxFnTargets}}

FnStrategies ==
    {[kind |-> "none"], [kind |-> "byLabel"]}
    \cup {[kind |-> "byPartition", partition |-> pt] : pt \in {Nil, Ptr(1)}}

FnSpecs(replicas) == {XSetSpec(Ptr(replicas), ContextOf(Caller), ru) : ru \in FnStrategies}

InitFn ==
    /\ pool \in BOOLEAN
    /\ rc \in FnRCs(pool)
    /\ op = [p \in Parents |-> IdleOp]
    /\ InitReconciler

FnAllocateStep ==
    /\ op[Caller].pc = "idle"
    /\ \E replicas \in 0..MaxFnReplicas, objs \in FnObjs, getErr \in BOOLEAN :
          \E spec \in FnSpecs(replicas) :
              AllocateIDGet(Caller, spec, CurrentRevision, UpdatedRevision, replicas, objs, getErr)
    /\ UNCHANGED recVars

FnReplicas == {Nil} \cup {Ptr(n) : n \in 0..MaxCleanReplicas}

FnCleanObjs ==
    {Listed(picked) : picked \in {s \in SUBSET {1, 2, 4, 5} : Cardinality(s) <= MaxFnTargets}}

FnCleanStep ==
    /\ \E replicas \in FnReplicas, objs \in FnCleanObjs, getErr \in BOOLEAN :
          CleanUnusedIDsGet(Caller, XSetSpec(replicas, ContextOf(Caller), [kind |-> "none"]),
                            objs, getErr)
    /\ UNCHANGED recVars

FnUpdateStep ==
    /\ \E getErr \in BOOLEAN, ownedIDs \in CallerMaps(Caller) :
          UpdateToTargetContextGet(Caller, XSetSpecOf(0), ownedIDs, getErr)
    /\ UNCHANGED recVars

FnWriteStep ==
    /\ \E fail \in BOOLEAN : ClientWrite(Caller, fail)
    /\ UNCHANGED recVars

NextFn == FnAllocateStep \/ FnCleanStep \/ FnUpdateStep \/ FnWriteStep

SpecFn == InitFn /\ [][NextFn]_vars

(***************************************************************************)
(* SpecCreate: the scale-out of one reconcile.  After AllocateID returned  *)
(* the owned details, ExtractAvailableContexts picks those to create a     *)
(* target for, each create attempt ends with an error or nil and           *)
(* DecideContextRevisionAfterCreate is applied to the detail, which the    *)
(* list and the owned map share; UpdateToTargetContext persists the map.   *)
(* The ResourceContext read holds details earlier reconciles left: marked  *)
(* for an update by recreation, with a decoration revision, just created,  *)
(* or with no mark.                                                        *)
(***************************************************************************)
CreateRCs(shared) ==
    {NoObject,
     Stored(<<Put(Put(Rec(0, Caller, CurrentRevision), RecreateUpdateKey, "true"),
                  TargetDecorationRevisionKey, "d1"),
              Rec(1, Caller, CurrentRevision)>>),
     Stored(<<Put(Put(Rec(0, Caller, CurrentRevision), JustCreateKey, "true"),
                  TargetDecorationRevisionKey, "d1")>>)}
    \cup IF shared
         THEN {Stored(<<Rec(0, "b", CurrentRevision),
                        Put(Rec(1, Caller, CurrentRevision), RecreateUpdateKey, "true")>>)}
         ELSE {}

InitCreate ==
    /\ pool \in BOOLEAN
    /\ rc \in CreateRCs(pool)
    /\ op = [p \in Parents |-> IdleOp]
    /\ InitReconciler

CreateAllocateStep ==
    /\ op[Caller].pc = "idle"
    /\ \E replicas \in 0..MaxCreateReplicas, objs \in PoolObjs, getErr \in BOOLEAN :
          AllocateIDGet(Caller, XSetSpecOf(replicas), CurrentRevision, UpdatedRevision,
                        replicas, objs, getErr)
    /\ UNCHANGED recVars

AllocateIDReturned(p) ==
    op[p].kind = "AllocateID" /\ op[p].pc = "done" /\ op[p].err = "nil"

ExtractStep ==
    /\ AllocateIDReturned(Caller) /\ ~op[Caller].extracted
    /\ \E diff \in -1..MaxDiff, targetInstanceIDSet \in SUBSET (0..MaxCreateReplicas) :
          \E availableContexts \in ExtractAvailableContexts(diff, op[Caller].ownedIDs,
                                                             targetInstanceIDSet) :
              op' = [op EXCEPT ![Caller] =
                        [@ EXCEPT !.extracted = TRUE, !.diff = diff,
                                  !.inUse = targetInstanceIDSet,
                                  !.available = availableContexts]]
    /\ UNCHANGED <<rc, pool>>
    /\ UNCHANGED recVars

CreateTargetStep ==
    /\ AllocateIDReturned(Caller) /\ op[Caller].extracted
    /\ \E i \in 1..Len(op[Caller].available), createErr \in CreateErrs :
          LET contextDetail == op[Caller].available[i]
              id == CHOOSE k \in DOMAIN op[Caller].ownedIDs :
                        op[Caller].ownedIDs[k] = contextDetail
              decided == DecideContextRevisionAfterCreate(contextDetail, UpdatedRevision,
                                                          createErr)
          IN  op' = [op EXCEPT ![Caller] =
                        [@ EXCEPT !.ownedIDs[id] = decided.detail,
                                  !.available[i] = decided.detail,
                                  !.created = <<[before |-> contextDetail, err |-> createErr,
                                                 after |-> decided.detail,
                                                 needWrite |-> decided.needUpdateContext]>>]]
    /\ UNCHANGED <<rc, pool>>
    /\ UNCHANGED recVars

NextCreate ==
    CreateAllocateStep \/ FnWriteStep \/ ExtractStep \/ CreateTargetStep \/ FnUpdateStep

SpecCreate == InitCreate /\ [][NextCreate]_vars

(***************************************************************************)
(* SpecIdem: one parent whose spec and target list do not change calls     *)
(* AllocateID and CleanUnusedIDs again and again, in any order, as its     *)
(* reconciles do: AllocateID with the replicas of the spec.  SpecIdemLive: *)
(* the calls keep coming, and a call once begun runs to its return.        *)
(***************************************************************************)
IdemObjs ==
    {Listed(picked) : picked \in {s \in SUBSET {1, 2, 5} : Cardinality(s) <= MaxFnTargets}}

IdemInputs ==
    {[spec |-> XSetSpec(replicas, ContextOf(Caller), [kind |-> "none"]), objs |-> objs] :
        replicas \in {Nil} \cup {Ptr(n) : n \in 0..MaxIdemReplicas}, objs \in IdemObjs}

InitIdem ==
    /\ pool \in BOOLEAN
    /\ rc \in FnRCs(pool)
    /\ \E given \in IdemInputs : op = [p \in Parents |-> [IdleOp EXCEPT !.fixed = <<given>>]]
    /\ InitReconciler

IdemAllocateStep ==
    /\ \E getErr \in BOOLEAN :
          LET given == op[Caller].fixed[1]
          IN  AllocateIDGet(Caller, given.spec, CurrentRevision, UpdatedRevision,
                            Deref(given.spec.Replicas, 0), given.objs, getErr)
    /\ UNCHANGED recVars

IdemCleanStep ==
    /\ \E getErr \in BOOLEAN :
          LET given == op[Caller].fixed[1]
          IN  CleanUnusedIDsGet(Caller, given.spec, given.objs, getErr)
    /\ UNCHANGED recVars

NextIdem == IdemAllocateStep \/ IdemCleanStep \/ FnWriteStep

SpecIdem == InitIdem /\ [][NextIdem]_vars

SpecIdemLive == InitIdem /\ [][NextIdem]_vars /\ WF_vars(NextIdem)

(***************************************************************************)
(* Claims about one AllocateID call.  On the allocation path the call is   *)
(* at its client write with its local variables live: owned0 is ownedIDs   *)
(* as read, ownedIDs what doAllocateID returned.                           *)
(***************************************************************************)
OnAllocationPath(p) == op[p].kind = "AllocateID" /\ op[p].pc = "write"

AddedIDs(p) == (DOMAIN op[p].ownedIDs) \ (DOMAIN op[p].owned0)

SmallestNotIn(E, n) ==
    {x \in 0..(n + Cardinality(E)) :
        x \notin E /\ Cardinality({y \in 0..(x - 1) : y \notin E}) < n}

(* C7 as stated: on the allocation path the IDs AllocateID adds are the    *)
(* R - |owned \cap E| smallest non-negative integers not in E, with the    *)
(* unrecorded IDs.                                                         *)
C7_AsStated ==
    \A p \in Parents :
        OnAllocationPath(p) =>
            LET E == DOMAIN op[p].existingIDs
                owned == DOMAIN op[p].owned0
            IN  AddedIDs(p) =
                    SmallestNotIn(E, op[p].replicas - Cardinality(owned \cap E))
                    \cup DOMAIN op[p].unRecordedIDs

(* C7: on the allocation path the IDs AllocateID adds are the              *)
(* max(0, R - |owned \cup unrecorded|) smallest non-negative integers not  *)
(* in E, with the unrecorded IDs.                                          *)
C7_AddedIDs ==
    \A p \in Parents :
        OnAllocationPath(p) =>
            LET E == DOMAIN op[p].existingIDs
                held == (DOMAIN op[p].owned0) \cup (DOMAIN op[p].unRecordedIDs)
            IN  AddedIDs(p) =
                    SmallestNotIn(E, op[p].replicas - Cardinality(held))
                    \cup DOMAIN op[p].unRecordedIDs

C7_Witness ==
    /\ OnAllocationPath(Caller)
    /\ op[Caller].unRecordedIDs # EmptyMap
    /\ op[Caller].owned0 # EmptyMap
    /\ DOMAIN op[Caller].existingIDs # DOMAIN op[Caller].owned0
    /\ \E id \in AddedIDs(Caller) :
          /\ id \notin DOMAIN op[Caller].unRecordedIDs
          /\ \E e \in DOMAIN op[Caller].existingIDs : e < id

(* C8: on the allocation path the owned set doAllocateID returns has       *)
(* max(desiredReplicas, |owned \cup unrecorded|) entries.                  *)
C8_OwnedSize ==
    \A p \in Parents :
        OnAllocationPath(p) =>
            Cardinality(DOMAIN op[p].ownedIDs) =
                maxInt(op[p].replicas,
                       Cardinality((DOMAIN op[p].owned0) \cup (DOMAIN op[p].unRecordedIDs)))

(* C9: the keys of the map an AllocateID returns are the ID fields of the  *)
(* details they map to, and no two keys map to details with the same ID.   *)
C9_KeysAreIDs ==
    \A p \in Parents :
        (op[p].kind = "AllocateID" /\ op[p].pc \in {"write", "done"}) =>
            /\ \A k \in DOMAIN op[p].ownedIDs : op[p].ownedIDs[k].ID = k
            /\ \A k1, k2 \in DOMAIN op[p].ownedIDs :
                  k1 # k2 => op[p].ownedIDs[k1].ID # op[p].ownedIDs[k2].ID

C9_Witness ==
    /\ op[Caller].kind = "AllocateID" /\ op[Caller].pc = "done" /\ op[Caller].err = "nil"
    /\ op[Caller].calls # <<>>
    /\ \E k \in DOMAIN op[Caller].ownedIDs : k \notin IDsOf(op[Caller].read) /\ k > 0
    /\ Cardinality(DOMAIN op[Caller].ownedIDs) >= 3

StrictlyAscending(contexts) ==
    \A i \in 1..(Len(contexts) - 1) : contexts[i].ID < contexts[i + 1].ID

Succeeded(p, verb) ==
    /\ WriteBy(p)
    /\ \E i \in 1..Len(op'[p].calls) : op'[p].calls[i] = [verb |-> verb, err |-> "nil"]

(* C10: after every successful Create or Update by AllocateID,             *)
(* CleanUnusedIDs or UpdateToTargetContext, owner-local or on a pool, the  *)
(* persisted details are strictly ascending by ID.                         *)
C10_PersistedAscending ==
    [][\A p \in Parents :
          (Succeeded(p, "Create") \/ Succeeded(p, "Update")) =>
              /\ rc'.exists
              /\ StrictlyAscending(rc'.contexts)]_vars

C10_Witness ==
    /\ pool
    /\ op[Caller].pc = "done" /\ op[Caller].calls = <<[verb |-> "Update", err |-> "nil"]>>
    /\ Len(rc.contexts) >= 3
    /\ \E i, j \in 1..Len(rc.contexts) :
          i < j /\ Contains(rc.contexts[i], OwnerKey, "b")
                /\ Contains(rc.contexts[j], OwnerKey, Caller)
    /\ \E i, j \in 1..Len(rc.contexts) :
          i < j /\ Contains(rc.contexts[i], OwnerKey, Caller)
                /\ Contains(rc.contexts[j], OwnerKey, "b")

(***************************************************************************)
(* Claims about the early exit of AllocateID and about the revision of the *)
(* new details.  On the allocation path op holds what                      *)
(* DecideContextsRevisionBeforeCreate was given (adopted: ownedIDs with    *)
(* the unrecorded IDs; newIDs: the details allocateNewIDs made) and what   *)
(* it left in the new details (decided).                                   *)
(***************************************************************************)
AllocateIDReturns(p) ==
    /\ CanCall(p) /\ op'[p] # op[p]
    /\ op'[p].kind = "AllocateID" /\ op'[p].pc = "done" /\ op'[p].err = "nil"

(* C11: an AllocateID that finds len(ownedIDs) >= replicas and no          *)
(* unrecorded ID does not reach a client write; an AllocateID that returns *)
(* without a write returns the owned details as read from the              *)
(* ResourceContext, keys and Data, has issued no Create/Update/Delete, has *)
(* registered no expectation and leaves the ResourceContext as it is.      *)
C11_EarlyExit ==
    [][\A p \in Parents :
          /\ (CanCall(p) /\ op'[p].kind = "AllocateID" /\ op'[p].pc = "write") =>
                ~(/\ Cardinality(DOMAIN OwnedIDsOf(rc.contexts, p)) >= op'[p].replicas
                  /\ op'[p].unRecordedIDs = EmptyMap)
          /\ AllocateIDReturns(p) =>
                /\ op'[p].ownedIDs = OwnedIDsOf(rc.contexts, p)
                /\ op'[p].calls = <<>>
                /\ op'[p].expects = <<>>
                /\ rc' = rc]_vars

C11_Witness ==
    /\ op[Caller].kind = "AllocateID" /\ op[Caller].pc = "done" /\ op[Caller].err = "nil"
    /\ op[Caller].calls = <<>> /\ op[Caller].expects = <<>>
    /\ Cardinality(DOMAIN op[Caller].ownedIDs) = 2
    /\ op[Caller].ownedIDs = OwnedIDsOf(rc.contexts, Caller)
    /\ \E id \in DOMAIN op[Caller].ownedIDs :
          Contains(op[Caller].ownedIDs[id], RevisionKey, UpdatedRevision)

ByPartition(p) ==
    /\ OnAllocationPath(p)
    /\ op[p].spec.RollingUpdate.kind = "byPartition"
    /\ op[p].spec.RollingUpdate.partition # Nil

UpdatedIn(details) ==
    {i \in DOMAIN details :
        /\ ~Get(details[i], ReplaceOriginTargetIDKey)
        /\ Contains(details[i], RevisionKey, UpdatedRevision)}

(* C12: under byPartition{P}, when AllocateID has filled the owned set up  *)
(* to replicas with new details, the owned details at updatedRevision that *)
(* are not replace origins are max(0, replicas - P) in number.             *)
C12_PartitionMath ==
    \A p \in Parents :
        (/\ ByPartition(p)
         /\ op[p].newIDs # EmptyMap
         /\ Cardinality(DOMAIN op[p].ownedIDs) = op[p].replicas) =>
            Cardinality(UpdatedIn(op[p].ownedIDs)) =
                maxInt(0, op[p].replicas - Deref(op[p].spec.RollingUpdate.partition, 0))

(* C13: under byPartition{P} with replicas R, the new details stamped with *)
(* updatedRevision are min(|newIDs|, max(0, (R - P) - alreadyUpdated)) in  *)
(* number, the other new details are stamped with currentRevision,         *)
(* whatever the new IDs are.                                               *)
C13_StampedByPartition ==
    \A p \in Parents :
        ByPartition(p) =>
            LET R == Deref(op[p].spec.Replicas, 0)
                P == Deref(op[p].spec.RollingUpdate.partition, 0)
                alreadyUpdated == Cardinality(UpdatedIn(op[p].adopted))
                room == maxInt(0, (R - P) - alreadyUpdated)
                expected == IF Cardinality(DOMAIN op[p].newIDs) < room
                            THEN Cardinality(DOMAIN op[p].newIDs) ELSE room
                stamped == {i \in DOMAIN op[p].decided :
                               Contains(op[p].decided[i], RevisionKey, UpdatedRevision)}
            IN  /\ Cardinality(stamped) = expected
                /\ \A i \in (DOMAIN op[p].decided) \ stamped :
                      Contains(op[p].decided[i], RevisionKey, CurrentRevision)

(* C14: every new detail is stamped with updatedRevision when              *)
(* rollingUpdate is absent or byPartition has no partition, and with       *)
(* currentRevision under byLabel, whatever the revisions of the owned      *)
(* details; a new detail keeps its ID and every key but Revision, and the  *)
(* owned details are the ones handed in.                                   *)
C14_StampedByStrategy ==
    \A p \in Parents :
        OnAllocationPath(p) =>
            LET ru == op[p].spec.RollingUpdate
                decided == op[p].decided
                newIDs == op[p].newIDs
            IN  /\ (ru.kind = "none" \/ (ru.kind = "byPartition" /\ ru.partition = Nil)) =>
                      \A i \in DOMAIN decided : Contains(decided[i], RevisionKey, UpdatedRevision)
                /\ ru.kind = "byLabel" =>
                      \A i \in DOMAIN decided : Contains(decided[i], RevisionKey, CurrentRevision)
                /\ DOMAIN decided = DOMAIN newIDs
                /\ \A i \in DOMAIN newIDs :
                      /\ decided[i].ID = newIDs[i].ID
                      /\ DOMAIN decided[i].Data = (DOMAIN newIDs[i].Data) \cup {RevisionKey}
                      /\ \A k \in (DOMAIN newIDs[i].Data) \ {RevisionKey} :
                            decided[i].Data[k] = newIDs[i].Data[k]
                /\ \A id \in (DOMAIN op[p].adopted) \ (DOMAIN decided) :
                      op[p].ownedIDs[id] = op[p].adopted[id]
                /\ \A id \in DOMAIN op[p].owned0 : op[p].ownedIDs[id] = op[p].owned0[id]

C14_Witness ==
    /\ OnAllocationPath(Caller)
    /\ op[Caller].spec.RollingUpdate.kind = "byLabel"
    /\ op[Caller].decided # EmptyMap
    /\ \E id \in DOMAIN op[Caller].owned0 :
          Contains(op[Caller].owned0[id], RevisionKey, UpdatedRevision)
    /\ \A i \in DOMAIN op[Caller].decided :
          Contains(op[Caller].decided[i], RevisionKey, CurrentRevision)

(***************************************************************************)
(* Claims about CleanUnusedIDs.  A call that has passed its Get holds its  *)
(* arguments (spec, objs) in op; at its client write ownedIDs is what is   *)
(* left of the owned details.                                              *)
(***************************************************************************)
CleanCalled(p) ==
    /\ CanCall(p) /\ rc.exists /\ op'[p] # op[p]
    /\ op'[p].kind = "CleanUnusedIDs" /\ op'[p].err # "GetFailed"

NeedClean(p) ==
    Cardinality(DOMAIN OwnedIDsOf(rc.contexts, p))
        - maxInt(Deref(op'[p].spec.Replicas, 0), Len(op'[p].objs))

Unused(p) == (DOMAIN OwnedIDsOf(rc.contexts, p)) \ CurrentIDs(op'[p].objs)

(* C15: with needClean = |ownedIDs| - max(replicas, |currentTargets|)      *)
(* (absent replicas read as 0), CleanUnusedIDs issues no write if          *)
(* needClean <= 0 or every owned ID is carried by a current target;        *)
(* otherwise it removes min(needClean, |owned IDs carried by no target|)   *)
(* owned IDs, none of them carried by a target, and its write persists     *)
(* the others unchanged.                                                   *)
C15_CleanCount ==
    [][\A p \in Parents :
          /\ CleanCalled(p) =>
                IF NeedClean(p) <= 0 \/ Unused(p) = {}
                THEN op'[p].pc = "done" /\ op'[p].calls = <<>> /\ op'[p].err = "nil"
                     /\ rc' = rc
                ELSE LET owned == OwnedIDsOf(rc.contexts, p)
                         removed == (DOMAIN owned) \ (DOMAIN op'[p].ownedIDs)
                     IN  /\ op'[p].pc = "write"
                         /\ DOMAIN op'[p].ownedIDs \subseteq DOMAIN owned
                         /\ removed \subseteq Unused(p)
                         /\ Cardinality(removed) =
                               IF Cardinality(Unused(p)) < NeedClean(p)
                               THEN Cardinality(Unused(p)) ELSE NeedClean(p)
                         /\ \A id \in DOMAIN op'[p].ownedIDs : op'[p].ownedIDs[id] = owned[id]
          /\ (WriteBy(p) /\ op[p].kind = "CleanUnusedIDs" /\ op'[p].err = "nil") =>
                OwnedIDsOf(rc'.contexts, p) = op[p].ownedIDs]_vars

C15_Witness ==
    /\ op[Caller].kind = "CleanUnusedIDs" /\ op[Caller].pc = "write"
    /\ op[Caller].spec.Replicas = Nil
    /\ Len(op[Caller].objs) = 1
    /\ Cardinality(DOMAIN op[Caller].owned0) = 3
    /\ Cardinality(DOMAIN op[Caller].ownedIDs) = 1
    /\ CurrentIDs(op[Caller].objs) \cap DOMAIN op[Caller].owned0 = {}

(* C16: CleanUnusedIDs never removes an owned ID that is the instance-id   *)
(* of a current target, and what it leaves, and persists, is at least      *)
(* max(replicas, |currentTargets|) owned IDs.                              *)
C16_CleanKeepsUsed ==
    [][\A p \in Parents :
          /\ (CleanCalled(p) /\ op'[p].pc = "write") =>
                /\ \A id \in CurrentIDs(op'[p].objs) \cap DOMAIN OwnedIDsOf(rc.contexts, p) :
                      id \in DOMAIN op'[p].ownedIDs
                /\ Cardinality(DOMAIN op'[p].ownedIDs) >=
                      maxInt(Deref(op'[p].spec.Replicas, 0), Len(op'[p].objs))
          /\ (WriteBy(p) /\ op[p].kind = "CleanUnusedIDs" /\ op'[p].err = "nil") =>
                /\ \A id \in CurrentIDs(op[p].objs) \cap DOMAIN OwnedIDsOf(rc.contexts, p) :
                      id \in DOMAIN OwnedIDsOf(rc'.contexts, p)
                /\ Cardinality(DOMAIN OwnedIDsOf(rc'.contexts, p)) >=
                      maxInt(Deref(op[p].spec.Replicas, 0), Len(op[p].objs))]_vars

C16_Witness ==
    /\ op[Caller].kind = "CleanUnusedIDs" /\ op[Caller].pc = "write"
    /\ CurrentIDs(op[Caller].objs) \cap DOMAIN op[Caller].owned0 # {}
    /\ DOMAIN op[Caller].ownedIDs # DOMAIN op[Caller].owned0
    /\ CurrentIDs(op[Caller].objs) \cap DOMAIN op[Caller].owned0
          \subseteq DOMAIN op[Caller].ownedIDs
    /\ Cardinality(DOMAIN op[Caller].ownedIDs) = Len(op[Caller].objs)

(***************************************************************************)
(* Claims about the end of a reconcile: the status update, the error and   *)
(* the requeue that Reconcile returns.  A reconcile has reached doSync     *)
(* when ConstructRevisions has returned without error.                     *)
(***************************************************************************)
ReachedDoSync ==
    \E i \in 1..Len(rec.calls) : rec.calls[i] = [call |-> "ConstructRevisions", err |-> "nil"]

StatusUpdates == {i \in 1..Len(rec.calls) : rec.calls[i].call = "UpdateStatus"}

(* C17: a reconcile that has reached doSync issues the status update once, *)
(* after doSync has returned, with or without an error, and issues no      *)
(* other write after it: when the reconcile is over the status update is   *)
(* the last of its calls and the only status update; before, there is      *)
(* none.                                                                   *)
C17_StatusLast ==
    /\ (rec.pc = "done" /\ ReachedDoSync) => StatusUpdates = {Len(rec.calls)}
    /\ rec.pc # "done" => StatusUpdates = {}

C17_Witness ==
    /\ rec.pc = "done" /\ ReachedDoSync
    /\ rec.syncErr # "nil"
    /\ rec.calls[Len(rec.calls)] = [call |-> "UpdateStatus", err |-> "nil"]
    /\ \E i \in 1..Len(rec.calls) :
          rec.calls[i] = [call |-> "ResourceContext.Create", err |-> "nil"]

ErrContains(err, inner) ==
    \E i \in 1..(Len(err) - Len(inner) + 1) : SubSeq(err, i, i + Len(inner) - 1) = inner

(* C18: whenever doSync returned a non-nil error, the error Reconcile      *)
(* returns is non-nil and carries that error, also when the status update  *)
(* failed.                                                                 *)
C18_SyncErrorReturned ==
    (rec.pc = "done" /\ ReachedDoSync /\ rec.syncErr # "nil") =>
        /\ rec.err # "nil"
        /\ ErrContains(rec.err, rec.syncErr)

Shortest(scaleRequeueAfter, updateRequeueAfter) ==
    IF scaleRequeueAfter = Nil THEN updateRequeueAfter
    ELSE IF updateRequeueAfter = Nil THEN scaleRequeueAfter
    ELSE IF updateRequeueAfter[1] < scaleRequeueAfter[1] THEN updateRequeueAfter
    ELSE scaleRequeueAfter

ResultOf(requeueAfter) ==
    IF requeueAfter = Nil THEN [Requeue |-> FALSE, RequeueAfter |-> 0]
    ELSE IF requeueAfter[1] = 0 THEN [Requeue |-> TRUE, RequeueAfter |-> 0]
    ELSE [Requeue |-> FALSE, RequeueAfter |-> requeueAfter[1]]

DoSyncReturned == rec.pc \in {"updateStatus", "done"} /\ ReachedDoSync

(* C19 as stated: doSync returns the smallest positive requeue-after among *)
(* those Scale and Update returned, nil when neither returned one, and     *)
(* Reconcile maps nil to no requeue, zero to an immediate requeue and a    *)
(* positive duration to RequeueAfter.                                      *)
C19_AsStated ==
    /\ DoSyncReturned =>
          LET positive == {d \in {rec.scaleRequeueAfter, rec.updateRequeueAfter} \ {Nil} :
                              d[1] > 0}
          IN  IF rec.scaleRequeueAfter = Nil /\ rec.updateRequeueAfter = Nil
              THEN rec.requeueAfter = Nil
              ELSE positive # {} =>
                      /\ rec.requeueAfter \in positive
                      /\ \A d \in positive : rec.requeueAfter[1] <= d[1]
    /\ (rec.pc = "done" /\ StatusUpdates # {}) => rec.result = ResultOf(rec.requeueAfter)

(* C19: doSync returns the shortest of the requeue-after durations Scale   *)
(* and Update returned, a zero duration included, and nil when neither     *)
(* returned one or doSync returned before Scale; Reconcile maps nil to no  *)
(* requeue, zero to an immediate requeue and a positive duration to        *)
(* RequeueAfter.                                                           *)
C19_Requeue ==
    /\ DoSyncReturned =>
          rec.requeueAfter = Shortest(rec.scaleRequeueAfter, rec.updateRequeueAfter)
    /\ (rec.pc = "done" /\ StatusUpdates # {}) => rec.result = ResultOf(rec.requeueAfter)

C19_Witness ==
    /\ rec.pc = "done" /\ StatusUpdates # {}
    /\ rec.scaleRequeueAfter = Ptr(0)
    /\ rec.updateRequeueAfter = Ptr(1)
    /\ rec.requeueAfter = Ptr(0)
    /\ rec.result = [Requeue |-> TRUE, RequeueAfter |-> 0]

GetReturns ==
    /\ rec.pc \in {"idle", "done"} /\ rec' # rec
    /\ parent' = parent /\ targets' = targets

(* C20: when the Get of the parent returns NotFound, Reconcile deletes the *)
(* expectations of the key, issues no write, and returns no error and no   *)
(* requeue; on any other Get error it returns the error and leaves the     *)
(* expectations as they are.                                               *)
C20_ParentNotFound ==
    [][GetReturns =>
          /\ rec'.err = "GetFailed" =>
                /\ rec'.pc = "done" /\ rec'.calls = <<>>
                /\ pending' = pending
                /\ rc' = rc
          /\ (rec'.err # "GetFailed" /\ ~parent.exists) =>
                /\ rec'.pc = "done" /\ rec'.err = "nil" /\ rec'.calls = <<>>
                /\ rec'.result = [Requeue |-> FALSE, RequeueAfter |-> 0]
                /\ pending' = FALSE
                /\ rc' = rc]_vars

C20_Witness ==
    /\ ~parent.exists
    /\ rec.pc = "done" /\ rec.err = "nil" /\ rec.calls = <<>> /\ ~rec.gated
    /\ rec.result = [Requeue |-> FALSE, RequeueAfter |-> 0]
    /\ ~pending
    /\ rc.exists

(***************************************************************************)
(* Claims about errors of the ResourceContext operations.  op[p].get is    *)
(* what the Client.Get of the call returned.                               *)
(***************************************************************************)
GetOf(p) == CanCall(p) /\ op'[p] # op[p]

FailedStage ==
    CASE rec.syncErr = "OrphanPvcFailed" -> "ReclaimSubResourcesFailed"
      [] rec.syncErr = "UpdateTargetFailed" -> "ReclaimOwnerReferencesFailed"
      [] rec.syncErr \in {"ListFailed", "DeleteFailed"} -> "ReclaimTargetsDeletionFailed"
      [] rec.released \notin {"unset", "nil"} -> "ReclaimResourceContext"
      [] OTHER -> ""

StageCalls(names) == {i \in 1..Len(rec.calls) : rec.calls[i].call \in names}

ResourceContextCalls ==
    {"ResourceContext.Create", "ResourceContext.Update", "ResourceContext.Delete"}

StageFailureHandled ==
    /\ rec.newStatus = [status |-> "False", reason |-> FailedStage]
    /\ rec.syncErr # "nil"
    /\ FailedStage \in {"ReclaimSubResourcesFailed", "ReclaimOwnerReferencesFailed"} =>
          /\ StageCalls({"BatchDeleteTargets"} \cup ResourceContextCalls) = {}
          /\ ~rec.cleaned /\ rec.released = "unset"
    /\ FailedStage = "ReclaimTargetsDeletionFailed" =>
          /\ StageCalls(ResourceContextCalls) = {}
          /\ ~rec.cleaned /\ rec.released = "unset"
    /\ FailedStage = "ReclaimResourceContext" => rec.syncErr = rec.released

(* C22: when a teardown stage fails in a reconcile, the XSetTerminating    *)
(* condition of the new status has status False and that stage's reason    *)
(* (never Deleted), no later stage has run in the reconcile, and the error *)
(* Reconcile returns is (wraps) the error of the stage.                    *)
C22_StageErrorReturned ==
    (rec.pc \in {"updateStatus", "done"} /\ FailedStage # "") =>
        /\ StageFailureHandled
        /\ rec.pc = "done" => ErrContains(rec.err, rec.syncErr)

(***************************************************************************)
(* CallsSucceed: a step in which no client call fails and SyncTargets has  *)
(* nothing left to sync.                                                   *)
(***************************************************************************)
CallsSucceed ==
    \/ ReconcileGet(FALSE)
    \/ ensureFinalizer(FALSE)
    \/ ExpectationGate
    \/ ConstructRevisions(FALSE)
    \/ SyncTargets(FALSE, FALSE)
    \/ releaseResourcesForDeletion(FALSE, FALSE, FALSE, FALSE, FALSE)
    \/ releaseWrite(FALSE)
    \/ Replace(FALSE)
    \/ \E replicas \in 0..MaxSyncReplicas, scaleRequeueAfter \in Durations :
          Scale(replicas, FALSE, scaleRequeueAfter)
    \/ \E scaleRequeueAfter \in Durations : scaleWrite(FALSE, scaleRequeueAfter)
    \/ \E updateRequeueAfter \in Durations : Update(updateRequeueAfter, FALSE, FALSE)
    \/ updateStatus(FALSE)
    \/ DeleteParent
    \/ TargetGone
    \/ CacheSynced

TornDown ==
    /\ IsDeleted(parent.cond)
    /\ \A id \in TargetIDs : targets[id] = "none"
    /\ OwnedIDsOf(rc.contexts, Caller) = EmptyMap

(* C23: for a parent with a deletion timestamp, under the fairness of      *)
(* SpecLive (reconciles keep being triggered, expectations are eventually  *)
(* satisfied, targets being deleted eventually disappear), if from some    *)
(* point on every client call succeeds, the finalizer is eventually        *)
(* removed (the parent goes away); and it is removed only after the        *)
(* targets are gone, the parent's IDs are released and reason Deleted is   *)
(* in the status, in that order.                                           *)
C23_TeardownCompletes ==
    /\ [][(parent.deleting /\ ~parent'.exists) => TornDown]_vars
    /\ [](parent.exists /\ IsDeleted(parent.cond) =>
             /\ \A id \in TargetIDs : targets[id] = "none"
             /\ OwnedIDsOf(rc.contexts, Caller) = EmptyMap)
    /\ (<>[][CallsSucceed]_vars) => (parent.deleting ~> ~parent.exists)

C23_Witness ==
    /\ ~parent.exists
    /\ rec.inst.deleting /\ IsDeleted(rec.inst.cond)
    /\ \E i \in 1..Len(rec.calls) : rec.calls[i] = [call |-> "RemoveFinalizer", err |-> "nil"]
    /\ \A id \in TargetIDs : targets[id] = "none"
    /\ OwnedIDsOf(rc.contexts, Caller) = EmptyMap

(***************************************************************************)
(* Claims about DecideContextRevisionAfterCreate.  op[p].created holds the *)
(* last create attempt of the scale-out: the detail before the call, the   *)
(* create error, the detail after it and needUpdateContext.                *)
(***************************************************************************)
Attempts == {op[Caller].created[i] : i \in 1..Len(op[Caller].created)}

Flagged(detail) ==
    \/ JustCreateKey \in DOMAIN detail.Data /\ detail.Data[JustCreateKey] = "true"
    \/ RecreateUpdateKey \in DOMAIN detail.Data /\ detail.Data[RecreateUpdateKey] = "true"

Unrecoverable(err) == err \in {"Forbidden", "Invalid"}

(* C24: DecideContextRevisionAfterCreate with a Forbidden or Invalid       *)
(* create error: a detail with JustCreate=true or RecreateUpdate=true gets *)
(* Revision = updatedRevision's name, loses its decoration-revision key,   *)
(* keeps every other key and ID, and needWrite is true; a detail with      *)
(* neither flag is left unchanged and needWrite is false.                  *)
C24_UnrecoverableCreate ==
    \A c \in Attempts :
        Unrecoverable(c.err) =>
            IF Flagged(c.before)
            THEN /\ c.needWrite
                 /\ c.after.ID = c.before.ID
                 /\ DOMAIN c.after.Data =
                       ((DOMAIN c.before.Data) \cup {RevisionKey}) \ {TargetDecorationRevisionKey}
                 /\ c.after.Data[RevisionKey] = UpdatedRevision
                 /\ \A k \in (DOMAIN c.after.Data) \ {RevisionKey} :
                        c.after.Data[k] = c.before.Data[k]
            ELSE c.after = c.before /\ ~c.needWrite

C24_Witness ==
    \E c \in Attempts :
        /\ c.err = "Invalid"
        /\ RecreateUpdateKey \in DOMAIN c.before.Data
        /\ JustCreateKey \notin DOMAIN c.before.Data
        /\ TargetDecorationRevisionKey \in DOMAIN c.before.Data
        /\ c.before.Data[RevisionKey] = CurrentRevision
        /\ c.after.Data[RevisionKey] = UpdatedRevision
        /\ c.needWrite

(* C25: DecideContextRevisionAfterCreate with a nil create error or an     *)
(* error other than Forbidden/Invalid removes the JustCreate and the       *)
(* RecreateUpdate keys, leaves Revision and every other key as they were,  *)
(* and returns needWrite = true.                                           *)
C25_RecoverableCreate ==
    \A c \in Attempts :
        ~Unrecoverable(c.err) =>
            /\ c.needWrite
            /\ c.after.ID = c.before.ID
            /\ DOMAIN c.after.Data = (DOMAIN c.before.Data) \ {JustCreateKey, RecreateUpdateKey}
            /\ \A k \in DOMAIN c.after.Data : c.after.Data[k] = c.before.Data[k]

C25_Witness ==
    \E c \in Attempts :
        /\ c.err = "Timeout"
        /\ Flagged(c.before)
        /\ TargetDecorationRevisionKey \in DOMAIN c.before.Data
        /\ TargetDecorationRevisionKey \in DOMAIN c.after.Data
        /\ ~Flagged(c.after)
        /\ c.needWrite

(* C26 as stated: a detail whose JustCreate is "true" keeps it through a   *)
(* create attempt that fails, whether the error is recoverable or          *)
(* unrecoverable: JustCreate is "true" for as long as the target has not   *)
(* been successfully created.                                              *)
C26_JustCreateKept ==
    \A c \in Attempts :
        (Contains(c.before, JustCreateKey, "true") /\ c.err # "nil") =>
            Contains(c.after, JustCreateKey, "true")

(* C26: every detail AllocateID allocates or adopts has JustCreate "true"  *)
(* when AllocateID returns; a detail whose JustCreate is "true" keeps it   *)
(* through a create attempt that fails with Forbidden or Invalid, and      *)
(* loses it at a create attempt that succeeds or fails with any other      *)
(* error.                                                                  *)
C26_JustCreateUntilDecided ==
    /\ [][(op[Caller].kind = "AllocateID" /\ op[Caller].pc = "write"
             /\ op'[Caller].pc = "done") =>
             \A id \in (DOMAIN op'[Caller].ownedIDs) \ (DOMAIN op[Caller].owned0) :
                 Contains(op'[Caller].ownedIDs[id], JustCreateKey, "true")]_vars
    /\ [](\A c \in Attempts :
             Contains(c.before, JustCreateKey, "true") =>
                 IF c.err \in {"Forbidden", "Invalid"}
                 THEN Contains(c.after, JustCreateKey, "true")
                 ELSE JustCreateKey \notin DOMAIN c.after.Data)

C26_Witness ==
    \E c \in Attempts :
        /\ c.err = "Forbidden"
        /\ c.before = Detail(1, (OwnerKey :> Caller) @@ (JustCreateKey :> "true")
                                 @@ (RevisionKey :> CurrentRevision))
        /\ c.after = Detail(1, (OwnerKey :> Caller) @@ (JustCreateKey :> "true")
                                @@ (RevisionKey :> UpdatedRevision))

(***************************************************************************)
(* Claims about ExtractAvailableContexts.                                  *)
(***************************************************************************)
Extracts == ~op[Caller].extracted /\ op'[Caller].extracted

NotInUse(ownedIDs, inUse) == {id \in DOMAIN ownedIDs : id \notin inUse}

(* C30: ExtractAvailableContexts(diff, ownedIDs, inUse) returns an empty   *)
(* list when diff <= 0, and otherwise min(diff, number of owned IDs not in *)
(* inUse) pairwise distinct details of ownedIDs, none with its ID in       *)
(* inUse; ownedIDs is left as it was.                                      *)
C30_ExtractAvailable ==
    [][Extracts =>
          /\ op'[Caller].ownedIDs = op[Caller].ownedIDs
          /\ op'[Caller].diff <= 0 => op'[Caller].available = <<>>
          /\ op'[Caller].diff > 0 =>
                /\ Len(op'[Caller].available) =
                      IF op'[Caller].diff
                            < Cardinality(NotInUse(op[Caller].ownedIDs, op'[Caller].inUse))
                      THEN op'[Caller].diff
                      ELSE Cardinality(NotInUse(op[Caller].ownedIDs, op'[Caller].inUse))
                /\ \A i \in 1..Len(op'[Caller].available) :
                      /\ op'[Caller].available[i].ID \notin op'[Caller].inUse
                      /\ \E id \in DOMAIN op[Caller].ownedIDs :
                            op'[Caller].available[i] = op[Caller].ownedIDs[id]
                      /\ \A j \in 1..Len(op'[Caller].available) :
                            i # j => op'[Caller].available[i].ID # op'[Caller].available[j].ID]_vars

C30_Witness ==
    /\ op[Caller].extracted /\ op[Caller].created = <<>>
    /\ op[Caller].diff = 2
    /\ Cardinality(DOMAIN op[Caller].ownedIDs) = 2
    /\ Cardinality(NotInUse(op[Caller].ownedIDs, op[Caller].inUse)) = 1
    /\ Len(op[Caller].available) = 1
    /\ op[Caller].available[1].ID \notin op[Caller].inUse

(***************************************************************************)
(* Claims about the IDs AllocateID hands out.                              *)
(***************************************************************************)
(* C27: every ID that AllocateID adds to the owned set (adopted from a     *)
(* target or newly allocated), returns and persists is a non-negative      *)
(* integer, whatever the instance-id labels of the targets are (missing,   *)
(* not a number, negative, out of the int32 range).                        *)
C27_IDsNonNegative ==
    \A p \in Parents :
        OnAllocationPath(p) =>
            \A id \in (DOMAIN op[p].ownedIDs) \ (DOMAIN op[p].owned0) :
                id >= 0 /\ op[p].ownedIDs[id].ID >= 0

(***************************************************************************)
(* Claims about the expectations.  The writes of the core are those of the *)
(* ResourceContext, the status update and the finalizer updates; the calls *)
(* a step of the reconcile adds to rec.calls are NewCalls.                 *)
(***************************************************************************)
CoreWrites ==
    {"AddFinalizer", "RemoveFinalizer", "UpdateStatus",
     "ResourceContext.Create", "ResourceContext.Update", "ResourceContext.Delete"}

NewCalls ==
    IF Len(rec'.calls) > Len(rec.calls)
    THEN SubSeq(rec'.calls, Len(rec.calls) + 1, Len(rec'.calls))
    ELSE <<>>

NewWrites(ok) ==
    {i \in 1..Len(NewCalls) :
        NewCalls[i].call \in CoreWrites /\ (NewCalls[i].err = "nil") = ok}

ExpectationOf(verb) ==
    CASE verb = "Create" -> "ExpectCreation"
      [] verb = "Update" -> "ExpectUpdation"
      [] verb = "Delete" -> "ExpectDeletion"

MatchingExpectations(calls) ==
    LET succeeded == SelectSeq(calls, LAMBDA c : c.err = "nil")
    IN  [i \in 1..Len(succeeded) |-> ExpectationOf(succeeded[i].verb)]

ReleaseWrites(p) ==
    /\ op[p].kind = "UpdateToTargetContext" /\ op[p].pc = "write"
    /\ op[p].ownedIDs = EmptyMap
    /\ op'[p].pc = "done" /\ op'[p].err = "nil"

Foreign(contexts, p) == SelectSeq(contexts, LAMBDA d : ~Contains(d, OwnerKey, p))

(* C29: a successful UpdateToTargetContext(parent, empty) leaves no detail *)
(* with Owner = parent in the ResourceContext: in owner-local mode, or in  *)
(* pool mode when the object read holds no detail of another owner, the    *)
(* ResourceContext is deleted and a deletion expectation is registered; in *)
(* pool mode with details of other owners it is updated to hold exactly    *)
(* those; when the ResourceContext does not exist the call returns nil     *)
(* without a write.                                                        *)
C29_ReleaseIDs ==
    [][/\ ReleaseWrites(Caller) =>
             /\ IF ~pool \/ Foreign(op[Caller].read, Caller) = <<>>
                THEN /\ rc' = NoObject
                     /\ op'[Caller].calls = <<[verb |-> "Delete", err |-> "nil"]>>
                     /\ op'[Caller].expects = <<"ExpectDeletion">>
                ELSE /\ rc'.exists
                     /\ rc'.contexts = Foreign(op[Caller].read, Caller)
                     /\ op'[Caller].calls = <<[verb |-> "Update", err |-> "nil"]>>
             /\ \A i \in 1..Len(rc'.contexts) : ~Contains(rc'.contexts[i], OwnerKey, Caller)
       /\ (GetOf(Caller) /\ op'[Caller].kind = "UpdateToTargetContext"
             /\ op'[Caller].pc = "done" /\ op'[Caller].get = "NotFound") =>
             /\ op'[Caller].err = "nil"
             /\ op'[Caller].calls = <<>> /\ op'[Caller].expects = <<>>
             /\ rc' = rc]_vars

C29_Witness ==
    /\ pool
    /\ op[Caller].kind = "UpdateToTargetContext" /\ op[Caller].pc = "done"
    /\ op[Caller].err = "nil"
    /\ op[Caller].calls = <<[verb |-> "Update", err |-> "nil"]>>
    /\ rc.exists
    /\ Len(rc.contexts) = 2
    /\ \A i \in 1..Len(rc.contexts) : Contains(rc.contexts[i], OwnerKey, "b")

(***************************************************************************)
(* Claims about the shared pool.                                           *)
(***************************************************************************)
UpdatedBy(p) ==
    /\ op[p].pc = "write" /\ op'[p].pc = "done"
    /\ \E i \in 1..Len(op'[p].calls) : op'[p].calls[i] = [verb |-> "Update", err |-> "nil"]

(* C31: in pool mode, a successful Update of the shared ResourceContext by *)
(* one parent (in AllocateID, CleanUnusedIDs or UpdateToTargetContext)     *)
(* leaves every detail owned by another parent in it, with the same ID and *)
(* Data.                                                                   *)
C31_ForeignDetailsKept ==
    [][\A p \in Parents :
          (pool /\ UpdatedBy(p)) =>
              \A i \in 1..Len(rc.contexts) :
                  ~Contains(rc.contexts[i], OwnerKey, p) =>
                      \E j \in 1..Len(rc'.contexts) : rc'.contexts[j] = rc.contexts[i]]_vars

(***************************************************************************)
(* Claims about the adoption of unrecorded IDs.                            *)
(***************************************************************************)
Adoptable(obj, existingIDs) ==
    /\ ~obj.deleting
    /\ ReplacePairOriginLabel \notin DOMAIN obj.labels
    /\ ~GetInstanceID(obj).err
    /\ GetInstanceID(obj).id \notin DOMAIN existingIDs

AdoptableIDs(p) ==
    {GetInstanceID(op[p].objs[i]).id :
        i \in {j \in 1..Len(op[p].objs) : Adoptable(op[p].objs[j], op[p].existingIDs)}}

OthersIDs(p) ==
    {op[p].read[i].ID : i \in {j \in 1..Len(op[p].read) : ~Contains(op[p].read[j], OwnerKey, p)}}

(* C32: AllocateID adopts a target's instance-id as an unrecorded ID only  *)
(* if the target has no deletion timestamp, carries no replace-pair-origin *)
(* label, its instance-id label parses as an integer and the ID is not in  *)
(* existingIDs, which in pool mode holds the IDs recorded for other        *)
(* owners; an ID added to the owned set is such a target's or one of the   *)
(* newly allocated ones, so no other target causes an ID to be added.      *)
C32_AdoptedOnlyIf ==
    \A p \in Parents :
        OnAllocationPath(p) =>
            /\ DOMAIN op[p].unRecordedIDs \subseteq AdoptableIDs(p)
            /\ AddedIDs(p) \subseteq AdoptableIDs(p) \cup DOMAIN op[p].newIDs
            /\ DOMAIN op[p].owned0 \subseteq DOMAIN op[p].existingIDs
            /\ pool => OthersIDs(p) \subseteq DOMAIN op[p].existingIDs

C32_Witness ==
    /\ pool /\ OnAllocationPath(Caller)
    /\ Len(op[Caller].objs) = 2
    /\ Cardinality(DOMAIN op[Caller].unRecordedIDs) = 1
    /\ \E i \in 1..Len(op[Caller].objs) :
          /\ ~GetInstanceID(op[Caller].objs[i]).err
          /\ GetInstanceID(op[Caller].objs[i]).id \in OthersIDs(Caller)

AdoptedData(p, id) ==
    (OwnerKey :> p) @@ (RevisionKey :> op[p].unRecordedIDs[id]) @@ (JustCreateKey :> "true")

(* C33: every unrecorded ID is in the owned set AllocateID returns, with   *)
(* Data exactly Owner the parent, Revision the revision recorded for its   *)
(* target and JustCreate "true"; the revision decided for the new IDs does *)
(* not restamp it, whatever the owned IDs, the unrecorded IDs, the         *)
(* replicas and the rollout strategy.                                      *)
C33_AdoptedData ==
    \A p \in Parents :
        OnAllocationPath(p) =>
            \A id \in DOMAIN op[p].unRecordedIDs :
                /\ id \in DOMAIN op[p].ownedIDs
                /\ op[p].ownedIDs[id] = Detail(id, AdoptedData(p, id))

(***************************************************************************)
(* Claims about doSync.                                                    *)
(***************************************************************************)
InReconcile == rec.pc \notin {"idle", "done"}

SyncStages == {"Replace", "Scale", "scaleWrite", "Update"}

SyncCalls == {"Replace", "ResourceContext.Create", "CreateTargets", "UpdateTargets"}

(* C34: a reconcile that read the parent with a deletion timestamp never   *)
(* reaches Replace, Scale, Update or ApplyTemplatePatcher: AllocateID is   *)
(* not called, no target is created, and after SyncTargets the only stage  *)
(* that runs is releaseResourcesForDeletion, followed by the status        *)
(* update.                                                                 *)
C34_TeardownOnly ==
    [][(rec'.inst.deleting /\ rec'.pc # "idle") =>
          /\ rec'.pc \notin SyncStages
          /\ \A i \in 1..Len(rec'.calls) : rec'.calls[i].call \notin SyncCalls
          /\ (rec' # rec /\ rec.pc # "done") =>
                /\ op'[Caller].kind = "AllocateID" => op'[Caller] = op[Caller]
                /\ \A id \in TargetIDs : targets'[id] = "live" => targets[id] = "live"
          /\ (rec' # rec /\ rec.pc = "SyncTargets") =>
                rec'.pc \in {"releaseResourcesForDeletion", "updateStatus"}
          /\ (rec' # rec /\ rec.pc = "releaseResourcesForDeletion") =>
                rec'.pc \in {"releaseWrite", "updateStatus"}
          /\ (rec' # rec /\ rec.pc = "releaseWrite") => rec'.pc = "updateStatus"]_vars

C34_Witness ==
    /\ rec.inst.deleting /\ rec.pc = "updateStatus"
    /\ rec.released = "nil"
    /\ \E i \in 1..Len(rec.calls) : rec.calls[i].call = "ResourceContext.Delete"

(* C35: when SyncTargets returns synced = true or an error, doSync returns *)
(* at once with a nil requeue-after and that error: Reconcile goes on to   *)
(* the status update and its return, and neither                           *)
(* releaseResourcesForDeletion nor Replace, Scale, Update or               *)
(* ApplyTemplatePatcher is invoked in that reconcile.                      *)
C35_SyncedOrErrorReturns ==
    [][/\ \A synced, fail \in BOOLEAN :
             (SyncTargets(synced, fail) /\ (synced \/ fail)) =>
                 /\ rec'.pc = "updateStatus"
                 /\ rec'.requeueAfter = Nil
                 /\ rec'.syncErr = IF fail THEN "SyncTargetsFailed" ELSE "nil"
                 /\ rec'.calls = rec.calls
                 /\ rec'.released = "unset" /\ ~rec'.cleaned
       /\ (rec.pc = "updateStatus" /\ rec'.pc # "updateStatus") =>
             /\ rec'.pc = "done"
             /\ rec'.calls = rec.calls \o <<rec'.calls[Len(rec'.calls)]>>
             /\ rec'.calls[Len(rec'.calls)].call = "UpdateStatus"
             /\ rec'.result = requeueResult(rec.requeueAfter)
             /\ UNCHANGED <<targets, rc, op>>]_vars

C35_Witness ==
    /\ rec.pc = "done" /\ rec.err = "nil" /\ rec.inst.deleting
    /\ rec.inst.cond = NoCondition /\ rec.newStatus = NoCondition
    /\ rec.result = Result(FALSE, 0)
    /\ rec.calls = <<[call |-> "ConstructRevisions", err |-> "nil"],
                     [call |-> "UpdateStatus", err |-> "nil"]>>

Joins(err, errs) ==
    /\ err = "nil" <=> \A i \in 1..Len(errs) : errs[i] = "nil"
    /\ \A i \in 1..Len(errs) : errs[i] # "nil" => ErrContains(err, errs[i])

(* C36: in doSync for a parent read without deletion timestamp, Scale is   *)
(* followed by Update and ApplyTemplatePatcher whether or not it failed,   *)
(* and the error doSync returns joins the errors of the three; an error of *)
(* Replace ends doSync before Scale, Update and ApplyTemplatePatcher.      *)
C36_ErrorsJoined ==
    [][/\ (rec.pc \in {"Scale", "scaleWrite"} /\ rec'.pc \notin {"Scale", "scaleWrite"}) =>
             /\ rec'.pc = "Update"
             /\ rec'.scaleErr = op'[Caller].err
       /\ \A updateRequeueAfter \in Durations, updateErr, patcherErr \in BOOLEAN :
             Update(updateRequeueAfter, updateErr, patcherErr) =>
                 /\ rec'.pc = "updateStatus"
                 /\ Joins(rec'.syncErr, <<rec.scaleErr,
                                          IF updateErr THEN "UpdateFailed" ELSE "nil",
                                          IF patcherErr THEN "ApplyTemplatePatcherFailed" ELSE "nil">>)
       /\ Replace(TRUE) =>
             /\ rec'.pc = "updateStatus" /\ rec'.syncErr = "ReplaceFailed"
             /\ UNCHANGED <<targets, rc, op>>
       /\ \A fail \in BOOLEAN :
             (updateStatus(fail) /\ rec.syncErr = "ReplaceFailed") =>
                 /\ rec'.pc = "done"
                 /\ \A i \in 1..Len(rec'.calls) :
                       rec'.calls[i].call \notin (SyncCalls \ {"Replace"}) \cup ResourceContextCalls]_vars

C36_Witness ==
    /\ rec.pc = "updateStatus" /\ ~rec.inst.deleting
    /\ rec.scaleErr # "nil"
    /\ ErrContains(rec.syncErr, rec.scaleErr)
    /\ ErrContains(rec.syncErr, "UpdateFailed")
    /\ ErrContains(rec.syncErr, "ApplyTemplatePatcherFailed")

(***************************************************************************)
(* Claims about repeated calls with the same arguments.                    *)
(***************************************************************************)
AllocateIDAgain ==
    /\ op[Caller].kind = "AllocateID" /\ op[Caller].pc = "done" /\ op[Caller].err = "nil"
    /\ op'[Caller].kind = "AllocateID" /\ op'[Caller].get # "ServerError"
    /\ \E getErr \in BOOLEAN :
          AllocateIDGet(Caller, op[Caller].fixed[1].spec, CurrentRevision, UpdatedRevision,
                        Deref(op[Caller].fixed[1].spec.Replicas, 0), op[Caller].fixed[1].objs,
                        getErr)

(* C37: AllocateID is idempotent: after a successful AllocateID, a second  *)
(* AllocateID with the same parent, replicas, revisions and targets        *)
(* returns at the early exit, without a write, the owned set the first     *)
(* call returned.                                                          *)
C37_Idempotent ==
    [][AllocateIDAgain =>
          /\ op'[Caller].pc = "done" /\ op'[Caller].err = "nil"
          /\ op'[Caller].calls = <<>>
          /\ op'[Caller].ownedIDs = op[Caller].ownedIDs
          /\ rc' = rc]_vars

IdemCallsSucceed == op'[Caller].pc = "done" => op'[Caller].err = "nil"

NoWriteBegun == op'[Caller].pc # "write"

AllocateIDWouldWrite ==
    LET given == op[Caller].fixed[1]
        existingIDs == ExistingIDsOf(rc.contexts, Caller, given.spec)
    IN  ~HasEnoughIDs(OwnedIDsOf(rc.contexts, Caller),
                      getUnRecordTargetIDs(existingIDs, given.objs, CurrentRevision),
                      Deref(given.spec.Replicas, 0))

CleanUnusedIDsWouldWrite ==
    LET given == op[Caller].fixed[1]
        ownedIDs == OwnedIDsOf(rc.contexts, Caller)
    IN  /\ rc.exists
        /\ needCleanCount(ownedIDs, given.spec, given.objs) > 0
        /\ allowDeleteIDs(ownedIDs, given.objs) # {}

(* C38: for a fixed parent spec and a fixed target list, CleanUnusedIDs    *)
(* and AllocateID called again and again in any order reach, after         *)
(* finitely many calls, a ResourceContext with which neither of them gets  *)
(* to a write any more, provided their client calls succeed from some      *)
(* point on; and whether they succeed or not, the ResourceContext changes  *)
(* finitely often: the two do not undo each other's work for ever.         *)
C38_Settles ==
    /\ <>[][rc' = rc]_vars
    /\ (<>[][IdemCallsSucceed]_vars) => <>[][NoWriteBegun]_vars

C38_Witness ==
    /\ op[Caller].kind = "CleanUnusedIDs" /\ op[Caller].pc = "done"
    /\ op[Caller].calls = <<[verb |-> "Update", err |-> "nil"]>>
    /\ rc.exists
    /\ ~AllocateIDWouldWrite /\ ~CleanUnusedIDsWouldWrite

(***************************************************************************)
(* Claims about the reconcile that removes the finalizer.                  *)
(***************************************************************************)
FinalizerRemovedAt ==
    {i \in 1..Len(rec.calls) : rec.calls[i] = [call |-> "RemoveFinalizer", err |-> "nil"]}

ParentWrites ==
    {"AddFinalizer", "RemoveFinalizer", "BatchDeleteTargets", "CreateTargets", "Replace",
     "UpdateTargets", "UpdateStatus"} \cup ResourceContextCalls

(* C39: in a reconcile in which ensureFinalizer removed the finalizer of a *)
(* parent being deleted, no mutating client call (target, PVC,             *)
(* ResourceContext or status write) follows the removal, and the reconcile *)
(* returns no error.                                                       *)
C39_NothingAfterRemoval ==
    \A i \in FinalizerRemovedAt :
        /\ \A j \in (i + 1)..Len(rec.calls) : rec.calls[j].call \notin ParentWrites
        /\ rec.pc = "done" => rec.err = "nil"

(***************************************************************************)
(* Claims about the writes of UpdateToTargetContext.                       *)
(***************************************************************************)
(* C40: an UpdateToTargetContext call issues at most one mutating call on  *)
(* the ResourceContext (one Create, one Update or one Delete), also when   *)
(* the ResourceContext is absent and the owned set is not empty, and none  *)
(* of its writes is made on an object other than the ResourceContext named *)
(* for the parent (the write on the blank object is the one the API        *)
(* server answers with InvalidObject).                                     *)
C40_OneWrite ==
    \A p \in Parents :
        (op[p].kind = "UpdateToTargetContext" /\ op[p].pc = "done") =>
            /\ Len(op[p].calls) <= 1
            /\ \A i \in 1..Len(op[p].calls) :
                  /\ op[p].calls[i].verb \in {"Create", "Update", "Delete"}
                  /\ op[p].calls[i].err # "InvalidObject"

====
